---- MODULE Spec2Model ----
(***************************************************************************)
(* Model of the semantic registry and emitter of tools/asn2eth.py:         *)
(* EthCnf (conformance tables), EthCtx (registration, eth_prepare,         *)
(* eth_output_types) and the eth_reg walk of the AST node classes.         *)
(*                                                                         *)
(* Python values are modelled as follows: a dict is a function whose       *)
(* DOMAIN is the set of its keys, a list is a sequence, a str is a string, *)
(* None is the empty string (both are false in a Python condition), an     *)
(* exception is the field err of the machine record, and it stops every    *)
(* later statement.  fs is the file system (a dict from a file name to the *)
(* lines of the file), frame holds the local variables of the function in  *)
(* progress when it is followed statement by statement.                    *)
(***************************************************************************)
EXTENDS Integers, Sequences, FiniteSets, TLC

VARIABLES ectx, conform, err, warn, pc, out, call, fs, frame

vars == <<ectx, conform, err, warn, pc, out, call, fs, frame>>

None == ""

\*--- Python str --------------------------------------------------------------
Chr(s, i) == SubSeq(s, i, i)

\* s.find(c) >= 0 for a one character string c
Find(s, c) == \E i \in 1..Len(s) : Chr(s, i) = c

RECURSIVE ReplaceHyphen(_)
\* s.replace('-', '_')
ReplaceHyphen(s) ==
  IF Len(s) = 0 THEN ""
  ELSE (IF Chr(s, 1) = "-" THEN "_" ELSE Chr(s, 1)) \o ReplaceHyphen(SubSeq(s, 2, Len(s)))

RECURSIVE SplitSlash(_)
\* s.split('/')
SplitSlash(s) ==
  LET P == {i \in 1..Len(s) : Chr(s, i) = "/"} IN
  IF P = {} THEN <<s>>
  ELSE LET i == CHOOSE j \in P : \A k \in P : j <= k
       IN <<SubSeq(s, 1, i - 1)>> \o SplitSlash(SubSeq(s, i + 1, Len(s)))

Digit(n) == <<"0", "1", "2", "3", "4", "5", "6", "7", "8", "9">>[n + 1]

RECURSIVE Str(_)
\* str(n) for n >= 0
Str(n) == IF n < 10 THEN Digit(n) ELSE Str(n \div 10) \o Digit(n % 10)

RECURSIVE LStrip(_)
\* s.lstrip(): the white space of the model is the space; a line is kept without
\* the newline that ends it
LStrip(s) == IF Len(s) > 0 /\ Chr(s, 1) = " " THEN LStrip(SubSeq(s, 2, Len(s))) ELSE s

RECURSIVE SplitMax(_, _)
\* s.split(None, n): at most n splits, the rest of s is the last item
SplitMax(s, n) ==
  LET Space(t) == {i \in 1..Len(t) : Chr(t, i) = " "}
      Item(t, i) == <<SubSeq(t, 1, i - 1)>> \o SplitMax(SubSeq(t, i + 1, Len(t)), n - 1)
      Items(t) == IF Len(t) = 0 THEN <<>>
                  ELSE IF n = 0 THEN <<t>>
                  ELSE IF Space(t) = {} THEN <<t>>
                  ELSE Item(t, CHOOSE j \in Space(t) : \A k \in Space(t) : j <= k)
  IN Items(LStrip(s))

\* the characters of the keys of the model in the order of their codes
Alphabet == " #$%&()*+,-./0123456789:;<=>?@ABCDEFGHIJKLMNOPQRSTUVWXYZ[]^_abcdefghijklmnopqrstuvwxyz{|}~"

\* ord(c) for a one character string c, up to a shift
Ord(c) == CHOOSE i \in 1..Len(Alphabet) : Chr(Alphabet, i) = c

RECURSIVE StrLess(_, _)
\* a < b for two str
StrLess(a, b) ==
  IF Len(b) = 0 THEN FALSE
  ELSE IF Len(a) = 0 THEN TRUE
  ELSE IF Chr(a, 1) # Chr(b, 1) THEN Ord(Chr(a, 1)) < Ord(Chr(b, 1))
  ELSE StrLess(SubSeq(a, 2, Len(a)), SubSeq(b, 2, Len(b)))

RECURSIVE Sorted(_)
\* keys = d.keys(); keys.sort(), for a set S of str
Sorted(S) ==
  IF S = {} THEN <<>>
  ELSE LET x == CHOOSE y \in S : \A z \in S \ {y} : StrLess(y, z)
       IN <<x>> \o Sorted(S \ {x})

\*--- Python dict and list ----------------------------------------------------
EmptyDict == <<>>
HasKey(d, k) == k \in DOMAIN d
Put(d, k, v) == (k :> v) @@ d
\* d.update(d2)
Update(d, d2) == d2 @@ d
\* d.get(k, dflt)
Get(d, k, dflt) == IF HasKey(d, k) THEN d[k] ELSE dflt
\* x in list
InList(l, x) == \E i \in 1..Len(l) : l[i] = x
\* list.index(x)
Index(l, x) == CHOOSE i \in 1..Len(l) : l[i] = x /\ \A j \in 1..(i - 1) : l[j] # x
Reverse(l) == [i \in 1..Len(l) |-> l[Len(l) + 1 - i]]

\*--- EthCnf ------------------------------------------------------------------
TableNames == {"EXPORTS", "PDU", "USER_DEFINED", "NO_EMIT", "MODULE_IMPORT",
               "OMIT_ASSIGNMENT", "TYPE_RENAME", "FIELD_RENAME", "IMPORT_TAG", "FN_PARS",
               "TYPE_ATTR", "ETYPE_ATTR", "FIELD_ATTR", "EFIELD_ATTR"}

tblcfg ==
  [t \in TableNames |->
     CASE t \in {"EXPORTS", "USER_DEFINED", "NO_EMIT"} ->
            [val_nm |-> "flag", val_dflt |-> 0, chk_dup |-> TRUE, chk_use |-> TRUE]
       [] t = "PDU" ->
            [val_nm |-> "attr", val_dflt |-> None, chk_dup |-> TRUE, chk_use |-> TRUE]
       [] t = "MODULE_IMPORT" ->
            [val_nm |-> "proto", val_dflt |-> None, chk_dup |-> TRUE, chk_use |-> TRUE]
       [] t = "OMIT_ASSIGNMENT" ->
            [val_nm |-> "omit", val_dflt |-> FALSE, chk_dup |-> TRUE, chk_use |-> TRUE]
       [] t \in {"TYPE_RENAME", "FIELD_RENAME"} ->
            [val_nm |-> "eth_name", val_dflt |-> None, chk_dup |-> TRUE, chk_use |-> TRUE]
       [] t = "IMPORT_TAG" ->
            [val_nm |-> "ttag", val_dflt |-> <<>>, chk_dup |-> TRUE, chk_use |-> FALSE]
       [] t = "FN_PARS" ->
            [val_nm |-> "pars", val_dflt |-> EmptyDict, chk_dup |-> TRUE, chk_use |-> TRUE]
       [] t \in {"TYPE_ATTR", "ETYPE_ATTR"} ->
            [val_nm |-> "attr", val_dflt |-> EmptyDict, chk_dup |-> TRUE, chk_use |-> FALSE]
       [] t \in {"FIELD_ATTR", "EFIELD_ATTR"} ->
            [val_nm |-> "attr", val_dflt |-> EmptyDict, chk_dup |-> TRUE, chk_use |-> TRUE]]

\* EthCnf.__init__
EthCnfInit == [table |-> [t \in TableNames |-> EmptyDict], fn |-> EmptyDict]

\* the machine record threaded through a call: the two objects, the pending
\* exception and the warnings written so far
Machine(e, c) == [ectx |-> e, conform |-> c, err |-> "", warn |-> <<>>]

Raise(m, msg) == [m EXCEPT !.err = msg]

\* add_item where the row of a duplicated key replaces the earlier one
add_item_LastWins(m, table, key, fn, lineno, kw) ==
  LET w == IF tblcfg[table].chk_dup /\ HasKey(m.conform.table[table], key)
           THEN Append(m.warn, [msg |-> "Duplicated", table |-> table, key |-> key,
                                prev_fn |-> m.conform.table[table][key].fn,
                                prev_lineno |-> m.conform.table[table][key].lineno,
                                fn |-> fn, lineno |-> lineno])
           ELSE m.warn
  IN [m EXCEPT !.warn = w,
               !.conform.table[table] =
                  Put(@, key, [fn |-> fn, lineno |-> lineno, used |-> FALSE, kw |-> kw])]

\* EthCnf.add_item: kw is the dict of the keyword arguments but fn and lineno
add_item(m, table, key, fn, lineno, kw) ==
  IF tblcfg[table].chk_dup /\ HasKey(m.conform.table[table], key)
  THEN [m EXCEPT !.warn = Append(@, [msg |-> "Duplicated", table |-> table, key |-> key,
                                     prev_fn |-> m.conform.table[table][key].fn,
                                     prev_lineno |-> m.conform.table[table][key].lineno,
                                     fn |-> fn, lineno |-> lineno])]
  ELSE [m EXCEPT !.conform.table[table] =
          Put(@, key, [fn |-> fn, lineno |-> lineno, used |-> FALSE, kw |-> kw])]

\* EthCnf.check_item
check_item(m, table, key) == HasKey(m.conform.table[table], key)

\* EthCnf.use_item: the value returned
use_item_val(m, table, key, vdflt) ==
  IF ~HasKey(m.conform.table[table], key) THEN vdflt
  ELSE Get(m.conform.table[table][key].kw, tblcfg[table].val_nm, vdflt)

\* use_item that leaves the used bit alone
use_item_mark_Never(m, table, key) == m

\* EthCnf.use_item: the effect on the row's used bit
use_item_mark(m, table, key) ==
  IF ~HasKey(m.conform.table[table], key) THEN m
  ELSE [m EXCEPT !.conform.table[table][key].used = TRUE]

\* the None of self.fn[name][ctx], and a dict in its place
NoBlock == [none |-> TRUE]
IsBlock(b) == "text" \in DOMAIN b

\* EthCnf.add_fn_line: the text of a block is kept as the sequence of the lines
\* appended to it
add_fn_line(m, name, ctx, line, fn, lineno) ==
  LET c1 == IF HasKey(m.conform.fn, name) THEN m.conform.fn
            ELSE Put(m.conform.fn, name,
                     [FN_HDR |-> NoBlock, FN_FTR |-> NoBlock, FN_BODY |-> NoBlock])
  IN [m EXCEPT !.conform.fn =
        [c1 EXCEPT ![name][ctx] =
           IF IsBlock(@) THEN [@ EXCEPT !.text = Append(@, line)]
           ELSE [text |-> <<line>>, used |-> FALSE, fn |-> fn, lineno |-> lineno]]]

\* EthCnf.get_fn_presence
get_fn_presence(m, name) == HasKey(m.conform.fn, name)

\* EthCnf.get_fn_body_presence
get_fn_body_presence(m, name) ==
  HasKey(m.conform.fn, name) /\ IsBlock(m.conform.fn[name]["FN_BODY"])

\* EthCnf.get_fn_text: '' is the text of no line
get_fn_text(m, name, ctx) ==
  IF ~HasKey(m.conform.fn, name) THEN <<>>
  ELSE IF ~IsBlock(m.conform.fn[name][ctx]) THEN <<>>
  ELSE m.conform.fn[name][ctx].text

\* EthCnf.unused_report: the warnings of the table t, keys sorted
UnusedOf(c, t) ==
  LET ks == SelectSeq(Sorted(DOMAIN c.table[t]), LAMBDA k : ~c.table[t][k].used)
  IN [i \in 1..Len(ks) |->
        [msg |-> "Unused", table |-> t, key |-> ks[i],
         fn |-> c.table[t][ks[i]].fn, lineno |-> c.table[t][ks[i]].lineno]]

\* tbls = self.table.keys(); tbls.sort()
SortedTableNames == Sorted(TableNames)

RECURSIVE UnusedFrom(_, _, _)
\* EthCnf.unused_report: for t in tbls, from the index i on
UnusedFrom(c, tbls, i) ==
  IF i > Len(tbls) THEN <<>>
  ELSE (IF ~tblcfg[tbls[i]].chk_use THEN <<>> ELSE UnusedOf(c, tbls[i]))
       \o UnusedFrom(c, tbls, i + 1)

\* EthCnf.unused_report
unused_report(m) ==
  IF m.err # "" THEN m
  ELSE [m EXCEPT !.warn = @ \o UnusedFrom(m.conform, SortedTableNames, 1)]

\*--- EthCnf.read -------------------------------------------------------------
\* a warning of read, written for the line lineno of the file fn
WarnAt(m, msg, fn, lineno) ==
  [m EXCEPT !.warn = Append(@, [msg |-> msg, fn |-> fn, lineno |-> lineno])]

\* the characters of [A-Z_]
UpperChars == {Chr("ABCDEFGHIJKLMNOPQRSTUVWXYZ_", i) : i \in 1..27}

\* comment = re.compile(r'^\s*#[^.]'); the character after a final # is the newline
comment(line) ==
  LET Hash(t) == Len(t) > 0 /\ Chr(t, 1) = "#" /\ (Len(t) = 1 \/ Chr(t, 2) # ".")
  IN Hash(LStrip(line))

\* empty = re.compile(r'^\s*$')
empty(line) == Len(LStrip(line)) = 0

\* directive = re.compile(r'^\s*#\.(?P<name>[A-Z_]+)\s+'): group('name'), "" when
\* there is no match, and line[result.end():]
directive(line) ==
  LET Upper(t) == {n \in 0..Len(t) : \A i \in 3..(2 + n) :
                     i <= Len(t) /\ Chr(t, i) \in UpperChars}
      Match(t, n) ==
        IF /\ Len(t) >= 3 /\ SubSeq(t, 1, 2) = "#."
           /\ n >= 1
           /\ (Len(t) = 2 + n \/ Chr(t, 3 + n) = " ")
        THEN [name |-> SubSeq(t, 3, 2 + n), rest |-> LStrip(SubSeq(t, 3 + n, Len(t)))]
        ELSE [name |-> "", rest |-> ""]
      Name(t) == Match(t, CHOOSE x \in Upper(t) : \A y \in Upper(t) : y <= x)
  IN Name(LStrip(line))

\* get_par of read: par is <<>> for the None returned; the first '-' is replaced
\* by None, whose [0] raises TypeError
get_par(m, line, pmin, pmax, fn, lineno) ==
  LET Stop(all) == {i \in 1..Len(all) : all[i] = "-" \/ Chr(all[i], 1) = "#"}
      Checked(par) ==
        IF Len(par) < pmin
        THEN [m |-> WarnAt(m, "Too few parameters", fn, lineno), par |-> <<>>]
        ELSE IF Len(par) > pmax
        THEN [m |-> WarnAt(m, "Too many parameters", fn, lineno), par |-> SubSeq(par, 1, pmax)]
        ELSE [m |-> m, par |-> par]
      Cut(all, i) ==
        IF all[i] = "-" THEN [m |-> Raise(m, "TypeError"), par |-> <<>>]
        ELSE Checked(SubSeq(all, 1, i - 1))
      Pars(all) ==
        IF Stop(all) = {} THEN Checked(all)
        ELSE Cut(all, CHOOSE j \in Stop(all) : \A k \in Stop(all) : j <= k)
  IN Pars(SplitMax(line, pmax))

RECURSIVE nmpars(_, _, _)
\* get_par_nm: the dict of the named parameters NAME=value of the items toks of
\* nmpar; an item that starts no named parameter continues the value of k
nmpars(toks, k, d) ==
  LET Eq(t) == {i \in 2..Len(t) : Chr(t, i) = "="}
      Attr(t, e) ==
        /\ Chr(t, 1) \in UpperChars
        /\ \A i \in 2..(e - 1) : Chr(t, i) \in UpperChars \cup {Digit(n) : n \in 0..9}
      Named(t, e) ==
        IF Attr(t, e)
        THEN nmpars(Tail(toks), SubSeq(t, 1, e - 1),
                    Put(d, SubSeq(t, 1, e - 1), SubSeq(t, e + 1, Len(t))))
        ELSE IF k = "" THEN d
        ELSE nmpars(Tail(toks), k, Put(d, k, d[k] \o " " \o t))
      Item(t) ==
        IF Eq(t) # {} THEN Named(t, CHOOSE j \in Eq(t) : \A x \in Eq(t) : j <= x)
        ELSE IF k = "" THEN d
        ELSE nmpars(Tail(toks), k, Put(d, k, d[k] \o " " \o t))
  IN IF Len(toks) = 0 THEN d ELSE Item(Head(toks))

\* get_par_nm of read with pnum = 1: par[pnum] = nmpars raises IndexError when
\* the line holds the key alone
get_par_nm(m, line, fn, lineno) ==
  LET Named(par) ==
        IF Len(par) < 1
        THEN [m |-> WarnAt(m, "Too few parameters.", fn, lineno), par |-> <<>>]
        ELSE IF Len(par) = 1 THEN [m |-> Raise(m, "IndexError"), par |-> <<>>]
        ELSE [m |-> m, par |-> <<par[1], nmpars(SplitMax(par[2], Len(par[2])), "", EmptyDict)>>]
      Pars(all) ==
        IF Len(all) > 0 /\ Chr(all[1], 1) = "#" THEN Named(<<>>)
        ELSE IF Len(all) > 1 /\ Chr(all[2], 1) = "#" THEN Named(<<all[1]>>)
        ELSE Named(all)
  IN Pars(SplitMax(line, 1))

\* the local variables of read(fn) before the first line: f is the number of
\* lines read from the open file, stack holds the including files
ReadFrame(fn) ==
  [k |-> "read", fn |-> fn, f |-> 0, lineno |-> 0, ctx |-> None, name |-> "", stack |-> <<>>]

\* read, a directive line: the machine and the local variables after it
ReadDirective(m, r, d, files) ==
  LET Fn(g) ==
        IF Len(g.par) = 0 THEN [m |-> g.m, r |-> r]
        ELSE [m |-> g.m, r |-> [r EXCEPT !.ctx = d.name, !.name = g.par[1]]]
      FnPars(g) ==
        [m |-> g.m,
         r |-> [r EXCEPT !.ctx = d.name, !.name = IF Len(g.par) = 0 THEN None ELSE g.par[1]]]
      Include(g) ==
        IF Len(g.par) = 0 THEN [m |-> g.m, r |-> r]
        ELSE IF ~HasKey(files, g.par[1]) THEN [m |-> Raise(g.m, "IOError"), r |-> r]
        ELSE [m |-> g.m,
              r |-> [r EXCEPT !.stack = Append(@, [fn |-> r.fn, f |-> r.f, lineno |-> r.lineno]),
                              !.fn = g.par[1], !.f = 0, !.lineno = 0]]
  IN CASE d.name \in {"EXPORTS", "USER_DEFINED", "NO_EMIT", "MODULE_IMPORT", "OMIT_ASSIGNMENT",
                      "TYPE_RENAME", "FIELD_RENAME", "IMPORT_TAG",
                      "TYPE_ATTR", "ETYPE_ATTR", "FIELD_ATTR", "EFIELD_ATTR"} ->
            [m |-> m, r |-> [r EXCEPT !.ctx = d.name]]
       [] d.name \in {"FN_HDR", "FN_FTR", "FN_BODY"} ->
            Fn(get_par(m, d.rest, 1, 1, r.fn, r.lineno))
       [] d.name = "FN_PARS" -> FnPars(get_par(m, d.rest, 0, 1, r.fn, r.lineno))
       [] d.name = "INCLUDE" -> Include(get_par(m, d.rest, 1, 1, r.fn, r.lineno))
       [] d.name = "END" -> [m |-> m, r |-> [r EXCEPT !.ctx = None]]
       [] OTHER -> [m |-> WarnAt(m, "Unknown directive", r.fn, r.lineno), r |-> r]

\* read, a line that is neither a comment nor a directive, in the context r.ctx
ReadContent(m, r, line) ==
  LET pmin == CASE r.ctx \in {"MODULE_IMPORT", "TYPE_RENAME", "FIELD_RENAME"} -> 2
                [] r.ctx = "IMPORT_TAG" -> 3
                [] OTHER -> 1
      pmax == IF r.ctx \in {"EXPORTS", "USER_DEFINED", "NO_EMIT"} THEN 2 ELSE pmin
      Flag(par) ==
        IF Len(par) < 2 THEN 3
        ELSE CASE par[2] = "WITHOUT_VALS" -> 1 [] par[2] = "ONLY_VALS" -> 2 [] OTHER -> 3
      Kw(par) ==
        CASE r.ctx \in {"EXPORTS", "USER_DEFINED", "NO_EMIT"} -> ("flag" :> Flag(par))
          [] r.ctx = "MODULE_IMPORT" -> ("proto" :> par[2])
          [] r.ctx = "IMPORT_TAG" -> ("ttag" :> <<par[2], par[3]>>)
          [] r.ctx = "OMIT_ASSIGNMENT" -> ("omit" :> TRUE)
          [] r.ctx \in {"TYPE_RENAME", "FIELD_RENAME"} -> ("eth_name" :> par[2])
          [] OTHER -> ("attr" :> par[2])
      Warned(g) ==
        IF r.ctx \in {"EXPORTS", "USER_DEFINED", "NO_EMIT"} /\ Len(g.par) >= 2
           /\ g.par[2] \notin {"WITH_VALS", "WITHOUT_VALS", "ONLY_VALS"}
        THEN WarnAt(g.m, "Unknown parameter value", r.fn, r.lineno)
        ELSE g.m
      Row(g) ==
        IF g.m.err # "" \/ Len(g.par) = 0 THEN g.m
        ELSE add_item(Warned(g), r.ctx, g.par[1], r.fn, r.lineno, Kw(g.par))
  IN IF r.ctx = None
     THEN (IF empty(line) THEN m
           ELSE WarnAt(m, "Non-empty line in empty context", r.fn, r.lineno))
     ELSE IF r.ctx \in {"FN_HDR", "FN_FTR", "FN_BODY"}
     THEN add_fn_line(m, r.name, r.ctx, line, r.fn, r.lineno)
     ELSE IF r.ctx = "FN_PARS" \/ empty(line) THEN m
     ELSE IF r.ctx \in {"TYPE_ATTR", "ETYPE_ATTR", "FIELD_ATTR", "EFIELD_ATTR"}
     THEN Row(get_par_nm(m, line, r.fn, r.lineno))
     ELSE Row(get_par(m, line, pmin, pmax, r.fn, r.lineno))

\* read, the body of the loop for a line that was read
ReadLine(m, r, line, files) ==
  LET Dir(d) == IF d.name # "" THEN ReadDirective(m, r, d, files)
                ELSE [m |-> ReadContent(m, r, line), r |-> r]
  IN IF comment(line) THEN [m |-> m, r |-> r] ELSE Dir(directive(line))

\* the end of an included file, where the line counter of the including file
\* is left as the included file counted
PopFrame_KeepLineno(r) ==
  LET frec == r.stack[Len(r.stack)]
  IN [r EXCEPT !.fn = frec.fn, !.f = frec.f, !.stack = SubSeq(@, 1, Len(@) - 1)]

\* read, the end of an included file: frec = stack.pop()
PopFrame(r) ==
  LET frec == r.stack[Len(r.stack)]
  IN [r EXCEPT !.fn = frec.fn, !.f = frec.f, !.lineno = frec.lineno,
               !.stack = SubSeq(@, 1, Len(@) - 1)]

\* read, one pass of the loop: the machine, the local variables and whether the
\* loop was left
ReadPass(m, r, files) ==
  LET Go(x) == [m |-> x.m, r |-> x.r, brk |-> FALSE]
  IN IF r.f >= Len(files[r.fn])
     THEN (IF Len(r.stack) > 0
           THEN [m |-> m, r |-> PopFrame([r EXCEPT !.lineno = @ + 1]), brk |-> FALSE]
           ELSE [m |-> m, r |-> [r EXCEPT !.lineno = @ + 1], brk |-> TRUE])
     ELSE Go(ReadLine(m, [r EXCEPT !.f = @ + 1, !.lineno = @ + 1], files[r.fn][r.f + 1], files))

\*--- AST nodes ---------------------------------------------------------------
\* Type.IsNamed
IsNamed(node) == node.name # None

\* Type.HasImplicitTag
HasImplicitTag(node) == node.tag = "IMPLICIT"

RECURSIVE eth_tname(_)
\* eth_tname of Type and of the subclasses that override it
eth_tname(node) ==
  CASE node.type = "Type_Ref" -> node.val
    [] node.type = "SequenceOfType" -> "SEQUNCE_OF_" \o eth_tname(node.val)
    [] node.type = "BooleanType" -> "BOOLEAN"
    [] node.type = "IntegerType" -> "INTEGER"
    [] OTHER -> "#" \o node.type \o "_" \o Str(node.id)

\* eth_ftype of Type and of the subclasses that override it
eth_ftype(node) ==
  CASE node.type \in {"SequenceOfType", "ChoiceType", "EnumeratedType"} ->
         <<"FT_UINT32", "BASE_DEC">>
    [] node.type = "BooleanType" -> <<"FT_BOOLEAN", "8">>
    [] node.type = "IntegerType" -> <<"FT_INT32", "BASE_DEC">>
    [] OTHER -> <<"FT_NONE", "BASE_NONE">>

\* eth_strings of Type and of the subclasses that override it
eth_strings(node) == IF node.type \in {"ChoiceType", "EnumeratedType"} THEN "$$" ELSE "NULL"

\*--- EthCtx ------------------------------------------------------------------
\* EthCtx.__init__; the eth_* attributes are created by eth_prepare, encoding
\* and new are set by eth_main before the first call
EthCtxInit ==
  [assign |-> EmptyDict, assign_ord |-> <<>>,
   field |-> EmptyDict, field_ord |-> <<>>,
   type |-> EmptyDict, type_ord |-> <<>>, type_imp |-> <<>>, type_dep |-> EmptyDict,
   vassign |-> EmptyDict, vassign_ord |-> <<>>,
   value |-> EmptyDict, value_ord |-> <<>>, value_imp |-> <<>>,
   eth_type |-> EmptyDict, eth_type_ord |-> <<>>, eth_export_ord |-> <<>>,
   eth_type_dupl |-> EmptyDict, named_bit |-> <<>>,
   value_dep |-> EmptyDict, eth_value |-> EmptyDict, eth_value_ord |-> <<>>,
   eth_hf |-> EmptyDict, eth_hf_ord |-> <<>>, eth_hf_dupl |-> EmptyDict,
   eth_type_ord1 |-> <<>>, eth_dep_cycle |-> <<>>, dep_cycle_eth_type |-> EmptyDict,
   eth_value_ord1 |-> <<>>, eth_vexport_ord |-> <<>>,
   encoding |-> "per", new |-> TRUE]

DefaultAttr == [TYPE |-> "FT_NONE", DISPLAY |-> "BASE_NONE", STRINGS |-> "NULL", BITMASK |-> "0"]

\* a registration that overwrites the entry of a key already present
eth_reg_assign_Overwrite(m, ident, val) ==
  IF m.err # "" THEN m
  ELSE [m EXCEPT !.ectx.assign = Put(@, ident, val),
                 !.ectx.assign_ord = Append(@, ident)]

\* EthCtx.eth_reg_assign
eth_reg_assign(m, ident, val) ==
  IF m.err # "" THEN m
  ELSE IF HasKey(m.ectx.assign, ident) THEN Raise(m, "Duplicate assignment for " \o ident)
  ELSE [m EXCEPT !.ectx.assign = Put(@, ident, val),
                 !.ectx.assign_ord = Append(@, ident)]

eth_reg_vassign(m, vassign) ==
  IF m.err # "" THEN m
  ELSE IF HasKey(m.ectx.vassign, vassign.ident)
       THEN Raise(m, "Duplicate value assignment for " \o vassign.ident)
  ELSE [m EXCEPT !.ectx.vassign = Put(@, vassign.ident, vassign),
                 !.ectx.vassign_ord = Append(@, vassign.ident)]

eth_import_type(m, ident, mod, proto) ==
  IF m.err # "" THEN m
  ELSE IF HasKey(m.ectx.type, ident) THEN Raise(m, "Duplicate type for " \o ident)
  ELSE LET m1 == use_item_mark(m, "TYPE_ATTR", ident) IN
       [m1 EXCEPT !.ectx.type = Put(@, ident,
                     [import |-> mod, proto |-> proto, ethname |-> "",
                      attr |-> Update(DefaultAttr, use_item_val(m, "TYPE_ATTR", ident, EmptyDict))]),
                  !.ectx.type_imp = Append(@, ident)]

eth_import_value(m, ident, mod, proto) ==
  IF m.err # "" THEN m
  ELSE IF HasKey(m.ectx.type, ident) THEN Raise(m, "Duplicate value for " \o ident)
  ELSE [m EXCEPT !.ectx.value = Put(@, ident, [import |-> mod, proto |-> proto, ethname |-> ""]),
                 !.ectx.value_imp = Append(@, ident)]

eth_dep_add(m, type, dep) ==
  IF m.err # "" THEN m
  ELSE IF HasKey(m.ectx.type_dep, type)
       THEN [m EXCEPT !.ectx.type_dep[type] = Append(@, dep)]
       ELSE [m EXCEPT !.ectx.type_dep = Put(@, type, <<dep>>)]

eth_reg_type(m, ident, val) ==
  IF m.err # "" THEN m
  ELSE IF HasKey(m.ectx.type, ident) THEN Raise(m, "Duplicate type for " \o ident)
  ELSE
    LET tname0 == IF Len(SplitSlash(ident)) > 1 THEN eth_tname(val) ELSE ReplaceHyphen(ident)
        m1 == use_item_mark(use_item_mark(use_item_mark(use_item_mark(use_item_mark(m,
                "EXPORTS", ident), "USER_DEFINED", ident), "NO_EMIT", ident),
                "TYPE_RENAME", ident), "TYPE_ATTR", ident)
        attr0 == IF val.type = "Type_Ref" THEN EmptyDict
                 ELSE ("TYPE" :> eth_ftype(val)[1]) @@ ("DISPLAY" :> eth_ftype(val)[2])
                      @@ ("STRINGS" :> eth_strings(val)) @@ ("BITMASK" :> "0")
    IN [m1 EXCEPT !.ectx.type = Put(@, ident,
                     [val |-> val, import |-> None,
                      tname |-> use_item_val(m, "TYPE_RENAME", ident, tname0),
                      export |-> use_item_val(m, "EXPORTS", ident, 0),
                      user_def |-> use_item_val(m, "USER_DEFINED", ident, 0),
                      no_emit |-> use_item_val(m, "NO_EMIT", ident, 0),
                      ethname |-> "",
                      attr |-> Update(attr0, use_item_val(m, "TYPE_ATTR", ident, EmptyDict))]),
                  !.ectx.type_ord = Append(@, ident)]

eth_reg_value(m, ident, type, value) ==
  IF m.err # "" THEN m
  ELSE IF HasKey(m.ectx.value, ident) THEN Raise(m, "Duplicate value for " \o ident)
  ELSE LET m1 == use_item_mark(m, "EXPORTS", ident) IN
       [m1 EXCEPT !.ectx.value = Put(@, ident,
                     [type |-> type, value |-> value, import |-> None,
                      export |-> use_item_val(m, "EXPORTS", ident, 0), ethname |-> ""]),
                  !.ectx.value_ord = Append(@, ident)]

\* '#' + str(id(self)) of eth_reg_field: one EthCtx, so one marker
ModifiedMark == "#ectx"

eth_reg_field(m, ident, type, idx, parent, impl) ==
  IF m.err # "" THEN m
  ELSE IF HasKey(m.ectx.field, ident) THEN Raise(m, "Duplicate field for " \o ident)
  ELSE
    LET has == check_item(m, "FIELD_ATTR", ident)
        m1 == IF has THEN use_item_mark(m, "FIELD_ATTR", ident) ELSE m
        m2 == [m1 EXCEPT !.ectx.field = Put(@, ident,
                     [type |-> type, idx |-> idx, impl |-> impl,
                      modified |-> IF has THEN ModifiedMark ELSE "",
                      attr |-> IF has THEN use_item_val(m, "FIELD_ATTR", ident, EmptyDict)
                               ELSE EmptyDict]),
                  !.ectx.field_ord = Append(@, ident)]
    IN IF parent # None THEN eth_dep_add(m2, parent, type) ELSE m2

\*--- the eth_reg walk --------------------------------------------------------
RECURSIVE Type_eth_reg(_, _, _, _, _)
RECURSIVE eth_reg_elts(_, _, _, _)

\* SequenceType.eth_reg_sub: the loop over elt_list from element i on
eth_reg_elts(m, elts, i, ident) ==
  IF i > Len(elts) THEN m
  ELSE eth_reg_elts(Type_eth_reg(m, elts[i], ident, "", ident), elts, i + 1, ident)

\* eth_reg_sub of Type, Type_Ref, SequenceOfType, SequenceType and ChoiceType
eth_reg_sub(m, node, ident) ==
  IF m.err # "" THEN m
  ELSE CASE node.type = "Type_Ref" -> eth_dep_add(m, ident, node.val)
         [] node.type = "SequenceOfType" ->
              Type_eth_reg(m, node.val,
                           IF IsNamed(node.val) THEN ident ELSE ident \o "/" \o "_item",
                           "[##]", ident)
         [] node.type \in {"SequenceType", "ChoiceType"} ->
              eth_reg_elts(m, node.elt_list, 1, ident)
         [] OTHER -> m

\* Type.eth_reg
Type_eth_reg(m, node, ident, idx, parent) ==
  IF m.err # "" THEN m
  ELSE
    LET nm == IF ident # "" /\ IsNamed(node) THEN ident \o "/" \o node.name
              ELSE IF IsNamed(node) THEN node.name
              ELSE IF ident # "" THEN ident
              ELSE ""
        omit == ident = "" /\ use_item_val(m, "OMIT_ASSIGNMENT", nm, FALSE)
        m0 == IF ident = "" THEN use_item_mark(m, "OMIT_ASSIGNMENT", nm) ELSE m
        \* if not ident: eth_reg_assign, and eth_reg_type for a Type_Ref
        m1 == IF ident = ""
              THEN LET a == eth_reg_assign(m0, nm, node)
                   IN IF node.type = "Type_Ref" THEN eth_reg_type(a, nm, node) ELSE a
              ELSE m0
        isnew == check_item(m, "TYPE_RENAME", nm) \/ get_fn_presence(m, nm)
        m2 == IF node.type = "Type_Ref"
              THEN (IF isnew THEN eth_reg_type(m1, nm, node) ELSE m1)
              ELSE eth_reg_type(m1, nm, node)
        trnm == IF node.type = "Type_Ref" THEN (IF isnew THEN nm ELSE node.val) ELSE nm
        m3 == IF ident # ""
              THEN eth_reg_field(m2, nm, trnm, idx, parent, HasImplicitTag(node))
              ELSE m2
    IN IF omit THEN m0 ELSE eth_reg_sub(m3, node, nm)

\* value_assign.eth_reg
value_assign_eth_reg(m, va) ==
  eth_reg_value(eth_reg_vassign(m, va), va.ident, va.typ, va.val)

\*--- eth_prepare: types ------------------------------------------------------
\* a | b and a & b on the two-bit flags
BitOr(a, b) == (IF a % 2 = 1 \/ b % 2 = 1 THEN 1 ELSE 0) + (IF a >= 2 \/ b >= 2 THEN 2 ELSE 0)
BitAnd(a, b) == (IF a % 2 = 1 /\ b % 2 = 1 THEN 1 ELSE 0) + (IF a >= 2 /\ b >= 2 THEN 2 ELSE 0)

\* ectx.proto, set by eth_main from the input file name or -p
Proto == "p"

\* eth_need_tree of Type and of the subclasses that override it
eth_need_tree(node) == node.type \in {"SequenceOfType", "SequenceType", "ChoiceType"}

\* eth_has_vals of Type and of the subclasses that override it
eth_has_vals(node) == node.type \in {"ChoiceType", "EnumeratedType"}

RECURSIVE PrepImpTypes(_, _)
\* for t in self.type_imp
PrepImpTypes(m, i) ==
  IF i > Len(m.ectx.type_imp) THEN m
  ELSE LET t == m.ectx.type_imp[i] IN
       PrepImpTypes([m EXCEPT !.ectx.eth_type = Put(@, t,
                          [import |-> m.ectx.type[t].import, proto |-> m.ectx.type[t].proto,
                           attr |-> EmptyDict, ref |-> <<>>]),
                        !.ectx.type[t].ethname = t], i + 1)

\* the name synthesised from the path of key t, before the duplicate suffix
SynthName(t) ==
  LET sp == SplitSlash(t)
      n == Len(sp)
  IN ReplaceHyphen(IF n = 2 /\ sp[2] = "_item" THEN sp[1] \o sp[2]
                   ELSE IF sp[n] = "_item" THEN "T_" \o sp[n - 1] \o sp[n]
                   ELSE "T_" \o sp[n])

\* the wire name chosen for key t and the duplicate table after the choice
TypeWireName(m, t) ==
  LET tn == m.ectx.type[t].tname
      synth == Find(tn, "#")
               \/ (Len(SplitSlash(t)) > 1 /\ get_fn_presence(m, t)
                   /\ ~check_item(m, "TYPE_RENAME", t))
      nm0 == SynthName(t)
      dupl == m.ectx.eth_type_dupl
  IN IF ~synth THEN [nm |-> tn, dupl |-> dupl, err |-> ""]
     ELSE IF ~HasKey(m.ectx.eth_type, nm0) THEN [nm |-> nm0, dupl |-> dupl, err |-> ""]
     ELSE IF HasKey(dupl, nm0)
          THEN [nm |-> nm0 \o Str(Len(dupl[nm0]) + 1 - 1),
                dupl |-> [dupl EXCEPT ![nm0] = Append(@, t)], err |-> ""]
     ELSE IF Len(m.ectx.eth_type[nm0].ref) = 0
          THEN [nm |-> nm0, dupl |-> dupl, err |-> "IndexError"]
     ELSE [nm |-> nm0 \o Str(2 - 1),
           dupl |-> Put(dupl, nm0, <<m.ectx.eth_type[nm0].ref[1], t>>), err |-> ""]

RECURSIVE PrepTypes(_, _)
\* for t in self.type_ord
PrepTypes(m, i) ==
  IF m.err # "" \/ i > Len(m.ectx.type_ord) THEN m
  ELSE
    LET t == m.ectx.type_ord[i]
        w == TypeWireName(m, t)
        nm == w.nm
        isnew == ~HasKey(m.ectx.eth_type, nm)
        attr0 == use_item_val(m, "ETYPE_ATTR", nm, EmptyDict)
        attr1 == IF Get(m.ectx.type[t].attr, "STRINGS", None) = "$$"
                 THEN Put(attr0, "STRINGS", "VALS(" \o nm \o "_vals)") ELSE attr0
        m1 == [m EXCEPT !.ectx.eth_type_dupl = w.dupl]
        m2 == IF isnew
              THEN [use_item_mark(m1, "ETYPE_ATTR", nm) EXCEPT
                      !.ectx.eth_type_ord = Append(@, nm),
                      !.ectx.eth_type = Put(@, nm,
                         [import |-> None, proto |-> Proto, export |-> 0,
                          user_def |-> 3, no_emit |-> 3, val |-> m.ectx.type[t].val,
                          attr |-> attr1, ref |-> <<t>>])]
              ELSE [m1 EXCEPT !.ectx.eth_type[nm].ref = Append(@, t)]
        m3 == [m2 EXCEPT !.ectx.type[t].ethname = nm]
        et == m3.ectx.eth_type[nm]
        ty == m.ectx.type[t]
    IN IF w.err # "" THEN Raise(m1, w.err)
       ELSE IF ~HasKey(et, "export") THEN Raise(m3, "KeyError: 'export'")
       ELSE PrepTypes([m3 EXCEPT
              !.ectx.eth_export_ord = IF et.export = 0 /\ ty.export # 0 THEN Append(@, nm) ELSE @,
              !.ectx.eth_type[nm].export = BitOr(@, ty.export),
              !.ectx.eth_type[nm].user_def = BitAnd(@, ty.user_def),
              !.ectx.eth_type[nm].no_emit = BitAnd(@, ty.no_emit)], i + 1)

RECURSIVE PrepTrees(_, _)
\* for t in self.eth_type_ord: named bits (none of the modelled types has any) and tree
PrepTrees(m, i) ==
  IF m.err # "" \/ i > Len(m.ectx.eth_type_ord) THEN m
  ELSE LET t == m.ectx.eth_type_ord[i] IN
       PrepTrees([m EXCEPT !.ectx.eth_type[t] =
                    ("tree" :> (IF eth_need_tree(m.ectx.eth_type[t].val)
                                THEN "ett_" \o Proto \o "_" \o t ELSE None)) @@ @], i + 1)

\* eth_prepare, section "types"
eth_prepare_types(m) ==
  PrepTrees(PrepTypes(PrepImpTypes(
    [m EXCEPT !.ectx.eth_type = EmptyDict, !.ectx.eth_type_ord = <<>>,
              !.ectx.eth_export_ord = <<>>, !.ectx.eth_type_dupl = EmptyDict,
              !.ectx.named_bit = <<>>], 1), 1), 1)

\*--- Value nodes -------------------------------------------------------------
\* a value is a str, [cls |-> "str", s |-> ...], or an ObjectIdentifierValue,
\* [cls |-> "ObjectIdentifierValue", comp_list |-> ...], whose components are
\* str, [kind |-> "str", s |-> ...], or name_and_number nodes
IsValue(v) == v.cls # "str"

IsDigit(s) == Len(s) > 0 /\ \A i \in 1..Len(s) : Chr(s, i) \in {"0", "1", "2", "3", "4", "5", "6", "7", "8", "9"}

\* the entries of oid_names that the modelled values can meet
oid_names == ("/itu-t" :> 0) @@ ("/iso" :> 1) @@ ("/joint-iso-itu-t" :> 2)
             @@ ("1/member-body" :> 2) @@ ("2/ds" :> 5)

\* ObjectIdentifierValue.get_num
get_num(path, val) ==
  IF HasKey(oid_names, path \o "/" \o val) THEN Str(oid_names[path \o "/" \o val]) ELSE val

\* the vstr of one component
CompStr(path, c) ==
  IF c.kind = "name_and_number" THEN c.number
  ELSE IF IsDigit(c.s) THEN c.s
  ELSE get_num(path, c.s)

RECURSIVE OidToStr(_, _, _, _)
\* ObjectIdentifierValue.to_str: the loop from component i on
OidToStr(comp_list, i, outs, path) ==
  IF i > Len(comp_list) THEN outs \o "\""
  ELSE LET vstr == CompStr(path, comp_list[i]) IN
       IF i = 1
       THEN OidToStr(comp_list, 2, IF IsDigit(vstr) THEN outs \o "\"" \o vstr
                                   ELSE outs \o vstr \o "\"", path \o vstr)
       ELSE OidToStr(comp_list, i + 1, outs \o "." \o vstr, path \o "." \o vstr)

\* Value.to_str as overridden by ObjectIdentifierValue
to_str(v) == OidToStr(v.comp_list, 1, "", "")

\* ObjectIdentifierValue.get_dep
get_dep(v) ==
  LET c == v.comp_list[1] IN
  IF c.kind = "name_and_number" THEN None
  ELSE IF IsDigit(c.s) THEN None
  ELSE IF IsDigit(get_num("", c.s)) THEN None
  ELSE get_num("", c.s)

\* the dep of eth_prepare: get_dep() of a Value, the string itself otherwise
ValueDepOf(v) == IF IsValue(v) THEN get_dep(v) ELSE v.s

\*--- eth_prepare: value dependencies and values ------------------------------
\* the four lines that add dep to self.value_dep[v]
AddValueDep(m, v) ==
  LET dep == ValueDepOf(m.ectx.value[v].value) IN
  IF dep # None /\ HasKey(m.ectx.value, dep)
  THEN IF HasKey(m.ectx.value_dep, v)
       THEN [m EXCEPT !.ectx.value_dep[v] = Append(@, dep)]
       ELSE [m EXCEPT !.ectx.value_dep = Put(@, v, <<dep>>)]
  ELSE m

RECURSIVE PrepValueDep(_, _)
\* first loop: for v in self.value_ord
PrepValueDep(m, i) ==
  IF i > Len(m.ectx.value_ord) THEN m
  ELSE PrepValueDep(AddValueDep(m, m.ectx.value_ord[i]), i + 1)

\* the export of d without its own dependencies
ExportDep_NoExtend(m, v, d) ==
  [m EXCEPT !.ectx.value[d].export = 1]

\* self.value[d]['export'] = 0x01; deparr.extend(self.value_dep.get(d, []))
ExportDep(m, v, d) ==
  [m EXCEPT !.ectx.value[d].export = 1,
            !.ectx.value_dep[v] = @ \o Get(m.ectx.value_dep, d, <<>>)]

RECURSIVE ExportWhile(_, _)
\* while deparr: deparr is the list object stored in value_dep[v]
ExportWhile(m, v) ==
  IF ~HasKey(m.ectx.value_dep, v) \/ Len(m.ectx.value_dep[v]) = 0 THEN m
  ELSE
    LET deparr == m.ectx.value_dep[v]
        d == deparr[Len(deparr)]
        popped == [m EXCEPT !.ectx.value_dep[v] = SubSeq(deparr, 1, Len(deparr) - 1)]
    IN IF m.ectx.value[d].import = None /\ m.ectx.value[d].export = 0
       THEN ExportWhile(ExportDep(popped, v, d), v)
       ELSE ExportWhile(popped, v)

RECURSIVE PrepValueExport(_, _)
\* second loop: the export flag is propagated to the dependencies
PrepValueExport(m, i) ==
  IF i > Len(m.ectx.value_ord) THEN m
  ELSE LET v == m.ectx.value_ord[i] IN
       IF m.ectx.value[v].export = 0 THEN PrepValueExport(m, i + 1)
       ELSE PrepValueExport(ExportWhile(m, v), i + 1)

\* eth_prepare, section "value dependencies"
eth_prepare_value_dep(m) ==
  IF m.err # "" THEN m
  ELSE PrepValueExport(PrepValueDep([m EXCEPT !.ectx.value_dep = EmptyDict], 1), 1)

RECURSIVE PrepImpValues(_, _)
\* for v in self.value_imp
PrepImpValues(m, i) ==
  IF i > Len(m.ectx.value_imp) THEN m
  ELSE LET v == m.ectx.value_imp[i]
           nm == ReplaceHyphen(v)
       IN PrepImpValues([m EXCEPT !.ectx.eth_value = Put(@, nm,
                             [import |-> m.ectx.value[v].import, proto |-> m.ectx.value[v].proto,
                              ref |-> <<>>]),
                           !.ectx.value[v].ethname = nm], i + 1)

RECURSIVE PrepValues(_, _)
\* for v in self.value_ord
PrepValues(m, i) ==
  IF i > Len(m.ectx.value_ord) THEN m
  ELSE LET v == m.ectx.value_ord[i]
           nm == ReplaceHyphen(v)
           val == m.ectx.value[v].value
           m1 == [m EXCEPT !.ectx.eth_value = Put(@, nm,
                     [import |-> None, proto |-> Proto, export |-> m.ectx.value[v].export,
                      ref |-> <<v>>, value |-> IF IsValue(val) THEN to_str(val) ELSE val.s])]
           m2 == AddValueDep(m1, v)
       IN PrepValues([m2 EXCEPT !.ectx.eth_value_ord = Append(@, nm),
                                !.ectx.value[v].ethname = nm], i + 1)

\* eth_prepare, section "values"
eth_prepare_values(m) ==
  IF m.err # "" THEN m
  ELSE PrepValues(PrepImpValues(
         [m EXCEPT !.ectx.eth_value = EmptyDict, !.ectx.eth_value_ord = <<>>], 1), 1)

\* eth_prepare, section "value dependencies and export"
eth_prepare_value_ord(m) ==
  IF m.err # "" THEN m
  ELSE LET ord == m.ectx.eth_value_ord
           Exp(v) == m.ectx.eth_value[v].export # 0
       IN [m EXCEPT !.ectx.eth_vexport_ord = SelectSeq(ord, Exp),
                    !.ectx.eth_value_ord1 = SelectSeq(ord, LAMBDA v : ~Exp(v))]

\*--- eth_get_type_attr -------------------------------------------------------
RECURSIVE TypeRefChain(_, _, _)
\* the first while loop: the list types, or the way the loop fails.  self.type
\* is not changed by the loop, so a key met twice is met for ever.
TypeRefChain(m, type, types) ==
  IF ~HasKey(m.ectx.type, type) THEN [types |-> types, err |-> "KeyError: " \o type]
  ELSE IF m.ectx.type[type].import = None /\ m.ectx.type[type].val.type = "Type_Ref"
  THEN LET nxt == m.ectx.type[type].val.val IN
       IF InList(types, nxt) THEN [types |-> types, err |-> "NonTermination"]
       ELSE TypeRefChain(m, nxt, Append(types, nxt))
  ELSE [types |-> types, err |-> ""]

RECURSIVE PopAttr(_, _, _)
\* the second while loop: types.pop() and the two updates
PopAttr(m, types, attr) ==
  IF Len(types) = 0 THEN attr
  ELSE LET t == types[Len(types)] IN
       PopAttr(m, SubSeq(types, 1, Len(types) - 1),
               Update(Update(attr, m.ectx.type[t].attr),
                      m.ectx.eth_type[m.ectx.type[t].ethname].attr))

\* EthCtx.eth_get_type_attr: [attr, err]
eth_get_type_attr(m, type) ==
  LET c == IF HasKey(m.ectx.type, type) THEN TypeRefChain(m, type, <<type>>)
           ELSE [types |-> <<>>, err |-> "KeyError: " \o type]
  IN IF c.err # "" THEN [attr |-> EmptyDict, err |-> c.err]
     ELSE [attr |-> PopAttr(m, c.types, EmptyDict), err |-> ""]

\*--- eth_prepare: fields -----------------------------------------------------
\* a dummy import that takes the protocol of the module for the placeholder
DummyImport_OwnProto(m, t) ==
  [m EXCEPT !.warn = Append(@, [msg |-> "Dummy imported: ", key |-> t]),
            !.ectx.type = Put(@, t, [import |-> "xxx", proto |-> Proto, ethname |-> t,
                                     attr |-> DefaultAttr]),
            !.ectx.eth_type = Put(@, t, [import |-> "xxx", proto |-> "xxx",
                                         attr |-> EmptyDict, ref |-> <<>>])]

\* the dummy import of an undefined type t
DummyImport(m, t) ==
  [m EXCEPT !.warn = Append(@, [msg |-> "Dummy imported: ", key |-> t]),
            !.ectx.type = Put(@, t, [import |-> "xxx", proto |-> "xxx", ethname |-> t,
                                     attr |-> DefaultAttr]),
            !.ectx.eth_type = Put(@, t, [import |-> "xxx", proto |-> "xxx",
                                         attr |-> EmptyDict, ref |-> <<>>])]

\* self.eth_hf[nm]['ref'].append(f); self.field[f]['ethname'] = nm
ShareHf(m, f, nm) ==
  [m EXCEPT !.ectx.eth_hf[nm].ref = Append(@, f),
            !.ectx.field[f] = ("ethname" :> nm) @@ @]

\* the layers of the attributes of a new header field
FieldAttr(m, f, typeattr, name, abbrev, nm) ==
  Update(Put(Put(Update(typeattr, m.ectx.field[f].attr), "NAME", "\"" \o name \o "\""),
             "ABBREV", abbrev),
         use_item_val(m, "EFIELD_ATTR", nm, EmptyDict))

\* the end of the loop body: a new entry of eth_hf under the name nm
NewHf(m, f, nm, name, abbrev, ethtype) ==
  LET ta == eth_get_type_attr(m, m.ectx.field[f].type)
      m1 == [m EXCEPT !.ectx.eth_hf_ord = Append(@, nm)]
  IN IF ta.err # "" THEN Raise(m1, ta.err)
     ELSE [use_item_mark(m1, "EFIELD_ATTR", nm) EXCEPT
             !.ectx.eth_hf = Put(@, nm,
                [fullname |-> "hf_" \o Proto \o "_" \o nm, ethtype |-> ethtype,
                 modified |-> m.ectx.field[f].modified,
                 attr |-> FieldAttr(m1, f, ta.attr, name, abbrev, nm), ref |-> <<f>>]),
             !.ectx.field[f] = ("ethname" :> nm) @@ @]

\* the body of the loop for one field f
PrepField(m, f) ==
  LET sp == SplitSlash(f)
      n == Len(sp)
      item == n > 1 /\ sp[n] = "_item"
      nm0 == IF item THEN sp[n - 1] \o sp[n] ELSE sp[n]
      name == (IF item THEN "Item" ELSE nm0) \o m.ectx.field[f].idx
      abbrev == ReplaceHyphen(nm0)
      nm == ReplaceHyphen(use_item_val(m, "FIELD_RENAME", f, nm0))
      ma == use_item_mark(m, "FIELD_RENAME", f)
      t == m.ectx.field[f].type
      known == HasKey(m.ectx.type, t)
      mb == IF known THEN ma ELSE DummyImport(ma, t)
      ethtype == IF known THEN m.ectx.type[t].ethname ELSE t
      ethtypemod == ethtype \o m.ectx.field[f].modified
      hf == mb.ectx.eth_hf
      dupl == mb.ectx.eth_hf_dupl
  IN IF ~HasKey(hf, nm) THEN NewHf(mb, f, nm, name, abbrev, ethtype)
     ELSE IF HasKey(dupl, nm)
     THEN IF HasKey(dupl[nm], ethtypemod)
          THEN ShareHf(mb, f, dupl[nm][ethtypemod])
          ELSE LET nmx == nm \o Str(Cardinality(DOMAIN dupl[nm])) IN
               NewHf([mb EXCEPT !.ectx.eth_hf_dupl[nm] = Put(@, ethtype, nmx)],
                     f, nmx, name, abbrev, ethtype)
     ELSE IF hf[nm].ethtype \o hf[nm].modified = ethtypemod
          THEN ShareHf(mb, f, nm)
          ELSE NewHf([mb EXCEPT !.ectx.eth_hf_dupl =
                        Put(@, nm, Put(Put(EmptyDict, hf[nm].ethtype \o hf[nm].modified, nm),
                                       ethtypemod, nm \o "1"))],
                     f, nm \o "1", name, abbrev, ethtype)

RECURSIVE PrepFields(_, _)
\* for f in self.field_ord
PrepFields(m, i) ==
  IF m.err # "" \/ i > Len(m.ectx.field_ord) THEN m
  ELSE PrepFields(PrepField(m, m.ectx.field_ord[i]), i + 1)

\* eth_prepare, section "fields"
eth_prepare_fields(m) ==
  IF m.err # "" THEN m
  ELSE PrepFields([m EXCEPT !.ectx.eth_hf = EmptyDict, !.ectx.eth_hf_ord = <<>>,
                            !.ectx.eth_hf_dupl = EmptyDict], 1)

\*--- eth_prepare: type dependencies -------------------------------------------
\* the state of the walk: stack, stackx, x (the keys of the dict x), the two
\* lists under construction and the pending exception
DelKey(d, k) == [j \in DOMAIN d \ {k} |-> d[j]]

\* the cycle taken to be the whole stack, not the slice from d on
CycleOf_Whole(stack, d) == Append(stack, d)

\* c = stack[:]; c.reverse(); c = [d] + c[0:c.index(d)+1]; c.reverse()
CycleOf(stack, d) ==
  LET c == Reverse(stack) IN Reverse(<<d>> \o SubSeq(c, 1, Index(c, d)))

\* the pop of the walk with the wire name inserted at the front of the list
DepPop_Front(m, w) ==
  LET top == w.stack[Len(w.stack)]
      e == m.ectx.type[top].ethname
  IN [w EXCEPT !.stackx = DelKey(@, top),
               !.stack = SubSeq(@, 1, Len(@) - 1),
               !.ord1 = <<e>> \o @,
               !.x = @ \cup {e}]

\* the pop of the walk that does not mark the wire name as emitted
DepPop_NoMark(m, w) ==
  LET top == w.stack[Len(w.stack)]
      e == m.ectx.type[top].ethname
  IN [w EXCEPT !.stackx = DelKey(@, top),
               !.stack = SubSeq(@, 1, Len(@) - 1),
               !.ord1 = Append(@, e)]

\* the else branch of the walk: del stackx[stack[-1]], stack.pop(), append, x[e] = True
DepPop(m, w) ==
  LET top == w.stack[Len(w.stack)]
      e == m.ectx.type[top].ethname
  IN [w EXCEPT !.stackx = DelKey(@, top),
               !.stack = SubSeq(@, 1, Len(@) - 1),
               !.ord1 = Append(@, e),
               !.x = @ \cup {e}]

RECURSIVE DepWhile(_, _)
\* while stack
DepWhile(m, w) ==
  IF w.err # "" \/ Len(w.stack) = 0 THEN w
  ELSE
    LET top == w.stack[Len(w.stack)] IN
    IF Len(w.stackx[top]) > 0
    THEN LET d == Head(w.stackx[top])
             w1 == [w EXCEPT !.stackx[top] = Tail(@)]
         IN IF ~HasKey(m.ectx.type, d) THEN [w1 EXCEPT !.err = "KeyError: " \o d]
            ELSE IF m.ectx.type[d].ethname \in w.x \/ m.ectx.type[d].import # None
                 THEN DepWhile(m, w1)
            ELSE IF HasKey(w.stackx, d)
                 THEN DepWhile(m, [w1 EXCEPT !.cycle = Append(@, CycleOf(w.stack, d))])
            ELSE DepWhile(m, [w1 EXCEPT !.stack = Append(@, d),
                                        !.stackx = Put(@, d, Get(m.ectx.type_dep, d, <<>>))])
    ELSE DepWhile(m, DepPop(m, w))

RECURSIVE DepRoots(_, _, _)
\* for t in self.type_ord
DepRoots(m, w, i) ==
  IF w.err # "" \/ i > Len(m.ectx.type_ord) THEN w
  ELSE LET t == m.ectx.type_ord[i] IN
       IF m.ectx.type[t].ethname \in w.x THEN DepRoots(m, w, i + 1)
       ELSE DepRoots(m, DepWhile(m, [w EXCEPT !.stack = <<t>>,
                                              !.stackx = Put(EmptyDict, t, Get(m.ectx.type_dep, t, <<>>))]),
                     i + 1)

RECURSIVE CycleIndex(_, _, _)
\* the loop that fills dep_cycle_eth_type; the indices count from 0 as in the source
CycleIndex(m, cyc, i) ==
  IF i >= Len(cyc) THEN m
  ELSE LET t == m.ectx.type[cyc[i + 1][1]].ethname IN
       CycleIndex(IF HasKey(m.ectx.dep_cycle_eth_type, t)
                  THEN [m EXCEPT !.ectx.dep_cycle_eth_type[t] = Append(@, i)]
                  ELSE [m EXCEPT !.ectx.dep_cycle_eth_type = Put(@, t, <<i>>)], cyc, i + 1)

\* eth_prepare, section "type dependencies"
eth_prepare_type_dep(m) ==
  IF m.err # "" THEN m
  ELSE
    LET w == DepRoots(m, [stack |-> <<>>, stackx |-> EmptyDict, x |-> {}, ord1 |-> <<>>,
                          cycle |-> <<>>, err |-> ""], 1)
        m1 == [m EXCEPT !.ectx.eth_type_ord1 = w.ord1, !.ectx.eth_dep_cycle = w.cycle,
                        !.ectx.dep_cycle_eth_type = EmptyDict]
    IN IF w.err # "" THEN Raise(m1, w.err) ELSE CycleIndex(m1, w.cycle, 0)

\*--- eth_prepare -------------------------------------------------------------
eth_prepare(m) ==
  eth_prepare_value_ord(eth_prepare_type_dep(eth_prepare_fields(
    eth_prepare_values(eth_prepare_value_dep(eth_prepare_types(m))))))

\*--- eth_output_types --------------------------------------------------------
Ber(e) == e.encoding = "ber"

\* out_field(f): the text returned is the one of the last pass of the loop
out_field(e, f) ==
  LET x == IF Ber(e) THEN {e.field[e.eth_hf[f].ref[i]].impl : i \in 1..Len(e.eth_hf[f].ref)}
           ELSE {FALSE}
      i == TRUE \in x
      t == e.eth_hf[f].ethtype
  IN [k |-> "out_field",
      name |-> "dissect_" \o f \o (IF Ber(e) /\ i THEN "_impl" ELSE ""),
      call |-> "dissect_" \o e.eth_type[t].proto \o "_" \o t,
      hf |-> e.eth_hf[f].fullname]

\* the out_field texts written for the header fields that satisfy P
OutFields(e, P(_)) ==
  LET hfs == SelectSeq(e.eth_hf_ord, P) IN [i \in 1..Len(hfs) |-> out_field(e, hfs[i])]

\* eth_type_fn_h writing static whatever the export flag is
eth_type_fn_h_Static(e, tname) ==
  [k |-> "fn_h", t |-> tname, static |-> TRUE]

\* EthCtx.eth_type_fn_h: the prototype of the dissector of tname
eth_type_fn_h(e, tname) ==
  [k |-> "fn_h", t |-> tname, static |-> e.eth_type[tname].export % 2 = 0]

RECURSIVE OutCycles(_, _)
\* the loop over eth_dep_cycle of the section "Cyclic dependencies"
OutCycles(e, i) ==
  IF i >= Len(e.eth_dep_cycle) THEN <<>>
  ELSE LET t == e.type[e.eth_dep_cycle[i + 1][1]].ethname
           idx == e.dep_cycle_eth_type[t]
       IN IF idx[1] # i THEN OutCycles(e, i + 1)
          ELSE <<[k |-> "cycles", c |-> [j \in 1..Len(idx) |-> e.eth_dep_cycle[idx[j] + 1]]],
                 eth_type_fn_h(e, t)>>
               \o (IF ~e.new THEN OutFields(e, LAMBDA f : e.eth_hf[f].ethtype = t) ELSE <<>>)
               \o OutCycles(e, i + 1)

\* EthCtx.eth_type_fn_hdr: the lines of the header of the function of tname,
\* the parameter list shortened to the encoding it depends on
eth_type_fn_hdr(m, tname) ==
  LET et == m.ectx.eth_type[tname] IN
  <<"", (IF et.export % 2 = 0 THEN "static " ELSE "") \o "int",
    "dissect_" \o Proto \o "_" \o tname \o "(" \o m.ectx.encoding \o ") {">>
  \o (IF get_fn_presence(m, et.ref[1]) THEN get_fn_text(m, et.ref[1], "FN_HDR") ELSE <<>>)

\* EthCtx.eth_type_fn_ftr
eth_type_fn_ftr(m, tname) ==
  LET et == m.ectx.eth_type[tname] IN
  <<"">>
  \o (IF get_fn_presence(m, et.ref[1]) THEN get_fn_text(m, et.ref[1], "FN_FTR") ELSE <<>>)
  \o <<"  return offset;", "}">>

\* EthCtx.eth_type_fn_body, pars=None as in every call
eth_type_fn_body(m, tname, body) ==
  IF get_fn_body_presence(m, m.ectx.eth_type[tname].ref[1])
  THEN get_fn_text(m, m.ectx.eth_type[tname].ref[1], "FN_BODY")
  ELSE body

\* eth_type_fn of the subclasses of Type, from the function header on: the
\* computed body is the call of the dissector of the class of the node
eth_type_fn(m, tname) ==
  eth_type_fn_hdr(m, tname)
  \o eth_type_fn_body(m, tname,
                      <<"  offset = dissect_" \o m.ectx.encoding \o "_"
                        \o m.ectx.eth_type[tname].val.type \o "();">>)
  \o eth_type_fn_ftr(m, tname)

\* SqType.out_item: the field of the row and the wrapper the row names, none
\* under the new API (the dissector of the type under PER, no row under BER)
SqType_out_item(e, f) ==
  [f |-> f,
   wrapper |-> IF e.new THEN ""
               ELSE "dissect_" \o e.field[f].ethname
                    \o (IF Ber(e) /\ e.field[f].impl THEN "_impl" ELSE "")]

\* out_item of ChoiceType.eth_type_fn: efd has the postfix for every encoding
Choice_out_item(e, f) ==
  [f |-> f,
   wrapper |-> IF e.new THEN ""
               ELSE "dissect_" \o e.field[f].ethname
                    \o (IF e.field[f].impl THEN "_impl" ELSE "")]

\* the rows of the element table that eth_type_fn writes for the wire type
\* tname: SequenceType, SequenceOfType (a table under BER only), ChoiceType
ElementRows(e, tname) ==
  LET node == e.eth_type[tname].val
      fname == e.eth_type[tname].ref[1]
  IN CASE node.type = "SequenceType" ->
            [i \in 1..Len(node.elt_list) |->
               SqType_out_item(e, fname \o "/" \o node.elt_list[i].name)]
       [] node.type = "SequenceOfType" ->
            IF Ber(e)
            THEN <<SqType_out_item(e, fname \o "/" \o (IF IsNamed(node.val) THEN node.val.name
                                                       ELSE "_item"))>>
            ELSE <<>>
       [] node.type = "ChoiceType" ->
            [i \in 1..Len(node.elt_list) |->
               Choice_out_item(e, fname \o "/" \o node.elt_list[i].name)]
       [] OTHER -> <<>>

\* what the loop over eth_type_ord1 writes for the wire type t
OutType(e, c, t) ==
  LET et == e.eth_type[t] IN
  IF et.import # None THEN <<>>
  ELSE (IF ~eth_has_vals(et.val) THEN <<>>
        ELSE IF et.no_emit >= 2 THEN <<>>
        ELSE IF et.user_def >= 2 THEN <<[k |-> "extern_vals", t |-> t]>>
        ELSE <<[k |-> "type_vals", t |-> t, static |-> et.export < 2]>>)
    \o (IF et.no_emit % 2 = 1 THEN <<>>
        ELSE IF et.user_def % 2 = 1 THEN <<eth_type_fn_h(e, t)>>
        ELSE <<[k |-> "type_fn", t |-> t, static |-> et.export % 2 = 0,
                node |-> et.val.type, rows |-> ElementRows(e, t),
                text |-> eth_type_fn(Machine(e, c), t)]>>)
    \o (IF ~e.new /\ ~HasKey(e.dep_cycle_eth_type, t)
        THEN OutFields(e, LAMBDA f : e.eth_hf[f].ethtype = t) ELSE <<>>)

RECURSIVE OutTypes(_, _, _)
\* for t in self.eth_type_ord1
OutTypes(e, c, i) ==
  IF i > Len(e.eth_type_ord1) THEN <<>>
  ELSE OutType(e, c, e.eth_type_ord1[i]) \o OutTypes(e, c, i + 1)

\* the section "Cyclic dependencies" written only for two cycles or more
OutCyclicSection_Two(e) ==
  IF Len(e.eth_dep_cycle) > 1
  THEN <<[k |-> "section", s |-> "Cyclic dependencies"]>> \o OutCycles(e, 0)
  ELSE <<>>

\* if self.eth_dep_cycle: the section "Cyclic dependencies"
OutCyclicSection(e) ==
  IF Len(e.eth_dep_cycle) > 0
  THEN <<[k |-> "section", s |-> "Cyclic dependencies"]>> \o OutCycles(e, 0)
  ELSE <<>>

\* EthCtx.eth_output_types: the writes to packet-P-fn.c after the file header,
\* and whether the file is kept; c is self.conform
eth_output_types(e, c) ==
  LET w == OutCyclicSection(e)
           \o (IF ~e.new
               THEN <<[k |-> "section", s |-> "Fields for imported types"]>>
                    \o OutFields(e, LAMBDA f : e.eth_type[e.eth_hf[f].ethtype].import # None)
               ELSE <<>>)
           \o OutTypes(e, c, 1)
  IN [fn |-> w,
      exists |-> (Len(w) > 0
                  \/ \E i \in 1..Len(e.eth_type_ord1) : e.eth_type[e.eth_type_ord1[i]].import = None)]

\*--- eth_main: the options ----------------------------------------------------
UpperLetters == "ABCDEFGHIJKLMNOPQRSTUVWXYZ"
LowerLetters == "abcdefghijklmnopqrstuvwxyz"

RECURSIVE lower(_)
\* s.lower()
lower(s) ==
  IF s = "" THEN ""
  ELSE LET Low(c) == IF Find(UpperLetters, c)
                     THEN Chr(LowerLetters, CHOOSE i \in 1..26 : Chr(UpperLetters, i) = c)
                     ELSE c
       IN Low(Chr(s, 1)) \o lower(SubSeq(s, 2, Len(s)))

\* os.path.basename(p)
basename(p) ==
  LET sl == {i \in 1..Len(p) : Chr(p, i) = "/"}
  IN IF sl = {} THEN p ELSE SubSeq(p, (CHOOSE i \in sl : \A j \in sl : j <= i) + 1, Len(p))

\* os.path.splitext(p)[0] for a p without a directory: the extension starts at
\* the last dot that has a character other than a dot before it
splitext(p) ==
  LET dots == {i \in 2..Len(p) : Chr(p, i) = "." /\ \E j \in 1..(i - 1) : Chr(p, j) # "."}
  IN IF dots = {} THEN p ELSE SubSeq(p, 1, (CHOOSE i \in dots : \A j \in dots : j <= i) - 1)

\* eth_main up to the loop over opts: fn is the input file, opts the options
\* in the order of the command line as getopt returns them
MainFrame(fn, opts) ==
  [k |-> "main", fn |-> fn, opts |-> opts, i |-> 0,
   proto |-> lower(splitext(basename(fn))), outnm |-> lower(splitext(basename(fn))),
   single_file |-> None]

\* one pass of the loop for o, a in opts over the locals r of eth_main
MainOption(r, o, a) ==
  LET r1 == [r EXCEPT !.i = @ + 1] IN
  CASE o = "-p" -> [r1 EXCEPT !.proto = a, !.outnm = a]
    [] o = "-o" -> [r1 EXCEPT !.outnm = a]
    [] o = "-s" -> [r1 EXCEPT !.single_file = a]
    [] OTHER -> r1

\* EthCtx.eth_output_fname
eth_output_fname(outnm, ftype, ext) ==
  (IF ext # "cnf" THEN "packet-" ELSE "") \o outnm
  \o (IF ftype # "" THEN "-" \o ftype ELSE "") \o "." \o ext


\*--- ChoiceType ---------------------------------------------------------------
\* a ChoiceType object: elt_list and ext_list are the lists the parser built,
\* has_ext is hasattr(self, 'ext_list'); an alternative is kept as its name and
\* the pair its GetTag returns
Alternative(name, cls, num) == [name |-> name, cls |-> cls, num |-> num]

\* Type.GetTag of an alternative
GetTag(e) == <<e.cls, e.num>>

\* lst = self.elt_list; if hasattr(self, 'ext_list'): lst.extend(self.ext_list)
\* lst is the list object of self.elt_list, so the object is extended
ChoiceExtend(c) == IF c.has_ext THEN [c EXCEPT !.elt_list = @ \o c.ext_list] ELSE c

\* ChoiceType.GetTTag: the object after the call and the pair returned
ChoiceGetTTag(c) ==
  LET Ret(lst) ==
        IF \A i \in DOMAIN lst : GetTag(lst[i])[1] = GetTag(lst[1])[1]
        THEN <<GetTag(lst[1])[1], "-1/*choice*/">>
        ELSE <<"-1/*choice*/", "-1/*choice*/">>
      After(c1) == [c |-> c1, ret |-> Ret(c1.elt_list)]
  IN After(ChoiceExtend(c))

\* tagval as eth_type_vals and eth_type_fn compute it from lst under BER
TagVal(lst) ==
  /\ GetTag(lst[1])[1] # "BER_CLASS_UNI"
  /\ \A i \in DOMAIN lst : GetTag(lst[i])[1] = GetTag(lst[1])[1]

\* the two loops of eth_type_vals and eth_type_fn over self.elt_list and
\* self.ext_list: one row (val, name, ext) per element met, cnt counting on
ChoiceRows(c, tagval) ==
  LET Val(e, cnt) == IF tagval THEN GetTag(e)[2] ELSE Str(cnt)
      n == Len(c.elt_list)
  IN [i \in 1..n |->
        [val |-> Val(c.elt_list[i], i - 1), name |-> c.elt_list[i].name,
         ext |-> IF c.has_ext THEN "ASN1_EXTENSION_ROOT" ELSE "ASN1_NO_EXTENSIONS"]]
     \o (IF c.has_ext
         THEN [i \in 1..Len(c.ext_list) |->
                 [val |-> Val(c.ext_list[i], n + i - 1), name |-> c.ext_list[i].name,
                  ext |-> "ASN1_NOT_EXTENSION_ROOT"]]
         ELSE <<>>)

\* ChoiceType.eth_type_vals: the object after the call and the list vals
ChoiceTypeVals(c, ber) ==
  LET After(c1) ==
        [c |-> c1,
         vals |-> [i \in DOMAIN ChoiceRows(c1, ber /\ TagVal(c1.elt_list)) |->
                     <<ChoiceRows(c1, ber /\ TagVal(c1.elt_list))[i].val,
                       ChoiceRows(c1, ber /\ TagVal(c1.elt_list))[i].name>>]]
  IN After(IF ber THEN ChoiceExtend(c) ELSE c)

\* ChoiceType.eth_type_fn up to the end of the element table: the object
\* after the call and the rows out_item wrote, none under the new API with BER
ChoiceTypeFn(c, ber, new) ==
  LET After(c1) ==
        [c |-> c1,
         rows |-> IF ber /\ new THEN <<>> ELSE ChoiceRows(c1, ber /\ TagVal(c1.elt_list))]
  IN After(IF ber THEN ChoiceExtend(c) ELSE c)

\*--- eth_prepare, loop pass by loop pass ---------------------------------------
\* one pass of "while deparr" of the export propagation for the value v
ExportIter(m, v) ==
  LET deparr == m.ectx.value_dep[v]
      d == deparr[Len(deparr)]
      popped == [m EXCEPT !.ectx.value_dep[v] = SubSeq(deparr, 1, Len(deparr) - 1)]
  IN IF m.ectx.value[d].import = None /\ m.ectx.value[d].export = 0
     THEN ExportDep(popped, v, d)
     ELSE popped

\* the condition of the first while loop of eth_get_type_attr for the key type
AttrLoopGoes(e, type) ==
  /\ HasKey(e.type, type)
  /\ e.type[type].import = None
  /\ e.type[type].val.type = "Type_Ref"

\* one pass of "while stack" of the type-dependency walk
DepIter(m, w) ==
  LET top == w.stack[Len(w.stack)] IN
  IF Len(w.stackx[top]) > 0
  THEN LET d == Head(w.stackx[top])
           w1 == [w EXCEPT !.stackx[top] = Tail(@)]
       IN IF ~HasKey(m.ectx.type, d) THEN [w1 EXCEPT !.err = "KeyError: " \o d]
          ELSE IF m.ectx.type[d].ethname \in w.x \/ m.ectx.type[d].import # None THEN w1
          ELSE IF HasKey(w.stackx, d)
               THEN [w1 EXCEPT !.cycle = Append(@, CycleOf(w.stack, d))]
          ELSE [w1 EXCEPT !.stack = Append(@, d),
                          !.stackx = Put(@, d, Get(m.ectx.type_dep, d, <<>>))]
  ELSE DepPop(m, w)

\*--- EnumeratedType -----------------------------------------------------------
RECURSIVE int(_)
\* int(s) for the str of a SignedNumber
int(s) ==
  IF Chr(s, 1) = "-" THEN 0 - int(SubSeq(s, 2, Len(s)))
  ELSE LET d == CHOOSE n \in 0..9 : Digit(n) = Chr(s, Len(s))
       IN IF Len(s) = 1 THEN d ELSE 10 * int(SubSeq(s, 1, Len(s) - 1)) + d

\* the items of an enumeration: p_Identifier and p_NamedNumber
Identifier(ident) == [type |-> "Identifier", ident |-> ident]
NamedNumber(ident, val) == [type |-> "NamedNumber", ident |-> ident, val |-> val]

\* for e in l: if e.type == 'NamedNumber': used[int(e.val)] = True
MarkNumbers(used, l) ==
  used \cup {int(l[i].val) : i \in {j \in DOMAIN l : l[j].type = "NamedNumber"}}

RECURSIVE NextUnused(_, _)
\* while used.has_key(lastv): lastv += 1
NextUnused(used, lastv) == IF lastv \in used THEN NextUnused(used, lastv + 1) ELSE lastv

RECURSIVE NumberItems(_, _, _, _)
\* the second loop over self.val (mark is true) or over self.ext (mark is
\* false: the value given to an item without a number is not put in used);
\* v holds vals, lastv, used and maxv
NumberItems(v, l, i, mark) ==
  IF i > Len(l) THEN v
  ELSE LET Give(val, lastv, used) ==
             NumberItems([vals |-> Append(v.vals, <<val, l[i].ident>>), lastv |-> lastv,
                          used |-> used, maxv |-> IF val > v.maxv THEN val ELSE v.maxv],
                         l, i + 1, mark)
           Auto(lastv) == Give(lastv, lastv, IF mark THEN v.used \cup {lastv} ELSE v.used)
       IN IF l[i].type = "NamedNumber" THEN Give(int(l[i].val), v.lastv, v.used)
          ELSE Auto(NextUnused(v.used, v.lastv))

\* EnumeratedType.eth_type_vals up to the call of eth_vals: node.has_ext is
\* self.ext is not None
EnumVals(node) ==
  LET Ext(v) == IF node.has_ext
                THEN NumberItems([v EXCEPT !.used = MarkNumbers(@, node.ext)], node.ext, 1, FALSE)
                ELSE v
  IN Ext(NumberItems([vals |-> <<>>, lastv |-> 0, used |-> MarkNumbers({}, node.val),
                      maxv |-> 0], node.val, 1, TRUE))

\* EthCtx.eth_vals: the table written for the list vals
eth_vals(e, tname, vals) ==
  [k |-> "type_vals", t |-> tname, static |-> e.eth_type[tname].export < 2, vals |-> vals]

\* EnumeratedType.eth_type_fn: under BER the function with the call of
\* dissect_ber_integer; under PER the body reads maxv, which is a local of
\* eth_type_vals and no name of this function or of the module, so the
\* interpreter raises NameError before anything is returned
Enum_eth_type_fn(m, tname) ==
  IF Ber(m.ectx)
  THEN [m |-> m,
        written |-> <<[k |-> "type_fn", t |-> tname,
                       static |-> m.ectx.eth_type[tname].export % 2 = 0,
                       node |-> "EnumeratedType",
                       text |-> eth_type_fn_hdr(m, tname)
                                \o eth_type_fn_body(m, tname,
                                      <<"  offset = dissect_ber_integer"
                                        \o (IF m.ectx.new THEN "_new" ELSE "")
                                        \o "(pinfo, tree, tvb, offset, hf_index, NULL);">>)
                                \o eth_type_fn_ftr(m, tname)]>>]
  ELSE [m |-> [m EXCEPT !.err = "NameError: global name maxv is not defined"],
        written |-> <<>>]

\*--- make_include -------------------------------------------------------------
\* a file opened for make_include is the list of its lines as readlines() gives
\* them: every line ends with the newline, the last one only if the file does
NL == "\n"
Quote == "\""

EndsLine(content) ==
  Len(content) > 0 /\ Chr(content[Len(content)], Len(content[Len(content)])) = NL

\* f.write(ln) for a string ln with no newline but at its end
Write(content, ln) ==
  IF ln = "" THEN content
  ELSE IF Len(content) = 0 \/ EndsLine(content) THEN Append(content, ln)
  ELSE [content EXCEPT ![Len(content)] = @ \o ln]

RECURSIVE WriteAll(_, _, _)
\* f.write(''.join(lines[i:]))
WriteAll(content, lines, i) ==
  IF i > Len(lines) THEN content ELSE WriteAll(Write(content, lines[i]), lines, i + 1)

\* ' ' * n, for the padding of '%-74s'
Spaces(n) ==
  IF n <= 0 THEN ""
  ELSE SubSeq("                                                                          ", 1, n)

RECURSIVE Join(_, _)
\* sep.join(l)
Join(sep, l) ==
  IF Len(l) = 0 THEN "" ELSE IF Len(l) = 1 THEN l[1] ELSE l[1] \o sep \o Join(sep, Tail(l))

\* sys.argv
Argv == <<"asn2eth.py", "-s", "t", "p.asn">>

\* eth_fhdr(fn) with comment=None: the lines it returns
eth_fhdr(fn) ==
  LET outln(ln) == "/* " \o ln \o Spaces(74 - Len(ln)) \o " */" \o NL
  IN <<outln("Do not modify this file."),
       outln("It is created automatically by the ASN.1 to Ethereal dissector compiler"),
       outln(fn), outln(Join(" ", Argv)), NL>>

\* include.search(line).group('fname'), "" when the line does not match
\* ^\s*#\s*include\s+[<"](?P<fname>[^>"]+)[>"] whatever the case of the letters
include(line) ==
  LET AfterOpen(s) ==
        LET stop == {i \in 2..Len(s) : Chr(s, i) \in {">", Quote}}
        IN IF Len(s) = 0 \/ Chr(s, 1) \notin {"<", Quote} \/ stop = {} THEN ""
           ELSE SubSeq(s, 2, (CHOOSE i \in stop : \A j \in stop : i <= j) - 1)
      AfterWord(s) == IF Len(s) = 0 \/ Chr(s, 1) # " " THEN "" ELSE AfterOpen(LStrip(s))
      AfterHash(s) == IF Len(s) < 7 \/ lower(SubSeq(s, 1, 7)) # "include" THEN ""
                      ELSE AfterWord(SubSeq(s, 8, Len(s)))
      AtHash(s) == IF Len(s) = 0 \/ Chr(s, 1) # "#" THEN ""
                   ELSE AfterHash(LStrip(SubSeq(s, 2, Len(s))))
  IN AtHash(LStrip(line))

\* the test of make_include with every readable file replaced, listed or not
Replaced_Unlisted(fname, inc_nms, files) == fname # "" /\ HasKey(files, fname)

\* result and (result.group('fname') in inc_nms) and os.path.exists(...)
Replaced(fname, inc_nms, files) ==
  fname # "" /\ InList(inc_nms, fname) /\ HasKey(files, fname)

\* make_include up to the loop: fin and fout are opened, the header is written
IncludeFrame(out_nm, in_nm, inc_nms, remove_inc) ==
  [k |-> "make_include", out_nm |-> out_nm, in_nm |-> in_nm, inc_nms |-> inc_nms,
   remove_inc |-> remove_inc, fin |-> 0, line |-> "", fname |-> "", finc |-> "",
   at |-> "readline"]

\* the four writes before the loop
IncludeHeader(out_nm, in_nm, inc_nms) ==
  eth_fhdr(out_nm)
  \o <<"/* Input file: " \o in_nm \o " */" \o NL,
       "/* Include files: " \o Join(", ", inc_nms) \o " */" \o NL, NL>>

\*--- the input: one ASN.1 module ----------------------------------------------
Type_Ref(name, val, id) == [type |-> "Type_Ref", name |-> name, tag |-> None, id |-> id, val |-> val]
Prim(type, name, id) == [type |-> type, name |-> name, tag |-> None, id |-> id]
SequenceOfType(name, val, id) ==
  [type |-> "SequenceOfType", name |-> name, tag |-> None, id |-> id, val |-> val]
SequenceType(name, elts, id) ==
  [type |-> "SequenceType", name |-> name, tag |-> None, id |-> id, elt_list |-> elts]

\* the type assignments a module is made of, as p_TypeAssignment builds them
Assignments ==
  { \* A ::= SEQUENCE { f SEQUENCE OF B }
    SequenceType("A", <<SequenceOfType("f", Type_Ref(None, "B", 11), 12)>>, 13),
    \* B ::= SEQUENCE { g SEQUENCE OF B }
    SequenceType("B", <<SequenceOfType("g", Type_Ref(None, "B", 21), 22)>>, 23),
    \* S ::= SEQUENCE { x SEQUENCE { a INTEGER } }
    SequenceType("S", <<SequenceType("x", <<Prim("IntegerType", "a", 31)>>, 32)>>, 33),
    \* T-x ::= SEQUENCE { b Z }
    SequenceType("T-x", <<Type_Ref("b", "Z", 41)>>, 42),
    \* Z ::= INTEGER
    Prim("IntegerType", "Z", 51),
    \* C ::= D
    Type_Ref("C", "D", 61),
    \* E ::= SEQUENCE { x1 BOOLEAN, x U }
    SequenceType("E", <<Prim("BooleanType", "x1", 71), Type_Ref("x", "U", 72)>>, 73) }

\* the type references an IMPORTS clause can list, and their module
ImportNames == {"U"}
ImportModule == "M-1"

\* how many assignments and imported symbols a module has at most
MaxAssign == 3
MaxImport == 1

\* a value: a reference to a value (a string) or an OBJECT IDENTIFIER value
ValueRef(s) == [cls |-> "str", s |-> s]
OidValue(comps) == [cls |-> "ObjectIdentifierValue", comp_list |-> comps]
NameForm(s) == [kind |-> "str", s |-> s]
NameAndNumber(s, n) == [kind |-> "name_and_number", s |-> s, number |-> n]
value_assign(ident, typ, val) == [ident |-> ident, typ |-> typ, val |-> val]

\* the value assignments a module is made of, as p_ValueAssignment builds them
ValueAssignments ==
  { \* a OBJECT IDENTIFIER ::= b
    value_assign("a", Prim("ObjectIdentifierType", None, 81), ValueRef("b")),
    \* b OBJECT IDENTIFIER ::= { c 1 }
    value_assign("b", Prim("ObjectIdentifierType", None, 82),
                 OidValue(<<NameForm("c"), NameForm("1")>>)),
    \* c OBJECT IDENTIFIER ::= { iso(1) 3 }
    value_assign("c", Prim("ObjectIdentifierType", None, 83),
                 OidValue(<<NameAndNumber("iso", "1"), NameForm("3")>>)),
    \* c OBJECT IDENTIFIER ::= a
    value_assign("c", Prim("ObjectIdentifierType", None, 84), ValueRef("a")) }

\* the value references an IMPORTS clause can list
ImportValueNames == {"c"}

\* how many value assignments a module has at most
MaxValue == 3

\* the conformance file: its name, the rows it can hold and how many at most
CnfFile == "p.cnf"
ExportRows == [key : {"a", "b"}, flag : {1, 2, 3}]
AttrRows ==
  { [table |-> "FIELD_ATTR", key |-> "S/x", attr |-> ("NAME" :> "\"n\"")],
    [table |-> "FIELD_ATTR", key |-> "T-x/b", attr |-> ("DISPLAY" :> "BASE_HEX")],
    [table |-> "TYPE_ATTR", key |-> "Z", attr |-> ("DISPLAY" :> "BASE_OCT")],
    [table |-> "EFIELD_ATTR", key |-> "b", attr |-> ("ABBREV" :> "bb")] }
MaxRows == 2

\* the arguments of the direct calls of the registration methods
RegIdents == {"A", "A/f", "U"}
RegVals == {Prim("IntegerType", None, 91), Type_Ref(None, "A", 92)}
RegValueIdents == {"a", "b"}
MaxCalls == 3

\* the calls of the methods of EthCnf: rows of a table whose use is checked and
\* of one whose use is not, and the lines of the FN_ blocks
CnfRows ==
  [table : {"EXPORTS"}, key : {"A", "B"}, kw : {("flag" :> 1), ("flag" :> 3)}]
  \cup [table : {"TYPE_ATTR"}, key : {"A"}, kw : {("attr" :> ("TYPE" :> "FT_UINT32"))}]
FnNames == {"A"}
FnCtxs == {"FN_HDR", "FN_BODY"}
FnLines == {"  x;"}
MaxCnfCalls == 3

\* the conformance files: the lines of the file given with -c are drawn from
\* ReadPool or from IncPool, the files it includes are q.cnf and r.cnf
ReadPool == {"#.EXPORTS", "#.FOO", "#.FN_BODY A", "#.FN_BODY", "#.END", "A", "#if 1"}
IncPool == {"#.EXPORTS", "B", "#.INCLUDE q.cnf"}
IncludedFiles ==
  ("q.cnf" :> <<"C", "#.INCLUDE r.cnf", "A">>) @@ ("r.cnf" :> <<"D">>)
MaxLines == 3
MaxIncLines == 4
TopFiles ==
  UNION {[1..n -> ReadPool] : n \in 0..MaxLines}
  \cup UNION {[1..n -> IncPool] : n \in 0..MaxIncLines}

\* the rows of the flag tables and the module compiled with them:
\* K ::= CHOICE { g SEQUENCE OF K } and E ::= ENUMERATED { ... }
FlagRows == [table : {"EXPORTS", "USER_DEFINED", "NO_EMIT"}, key : {"K", "E"}, flag : {1, 2}]
FlagAssignments ==
  { [type |-> "ChoiceType", name |-> "K", tag |-> None, id |-> 103,
     elt_list |-> <<SequenceOfType("g", Type_Ref(None, "K", 101), 102)>>],
    Prim("EnumeratedType", "E", 111) }
MaxFlagRows == 2
MaxFlagAssign == 2

\* the command lines: the input file and the options drawn for eth_main
InputFiles == {"Foo.asn", "d/m.asn1"}
OptPool == {<<"-p", "q">>, <<"-o", "x">>, <<"-o", "y">>, <<"-b", "">>, <<"-s", "t">>,
            <<"-h", "">>}
MaxOpts == 3

\* single file output: the template t.c, the fragments written before, of which
\* packet-p-ett.c is listed and missing, and x.h readable and not listed
IncNames == <<"packet-p-hf.c", "packet-p-ett.c", "packet-p-fn.c">>
FragmentFiles ==
  ("packet-p-hf.c" :> <<"int hf;" \o NL>>)
  @@ ("packet-p-fn.c" :> <<"f();" \o NL, "g();">>)
  @@ ("x.h" :> <<"x" \o NL>>)
TemplatePool ==
  {"#include <packet-p-fn.c>" \o NL, "  # Include  <packet-p-hf.c> /* hf */" \o NL,
   "#include <packet-p-ett.c>" \o NL, "#include <x.h>" \o NL, "int x;" \o NL}
MaxTemplate == 3

\* the ENUMERATED types: up to MaxEnum items named a, b, ...; a root item has
\* no number or one of RootNumbers, an additional item no number or one of
\* ExtNumbers, and no number is written twice
MaxEnum == 3
RootNumbers == {"0", "2"}
ExtNumbers == {"7"}
EnumItems(n, first, nums) ==
  {[i \in 1..n |-> IF c[i] = "" THEN Identifier(Chr("abcdefgh", first + i))
                   ELSE NamedNumber(Chr("abcdefgh", first + i), c[i])] :
     c \in {d \in [1..n -> nums \cup {""}] :
              \A i, j \in 1..n : i # j /\ d[i] # "" => d[i] # d[j]}}
EnumNodes ==
  UNION {{[type |-> "EnumeratedType", name |-> "E", tag |-> None, id |-> 111,
           val |-> r, has_ext |-> FALSE, ext |-> <<>>] : r \in EnumItems(n, 0, RootNumbers)}
         : n \in 1..MaxEnum}
  \cup UNION {{[type |-> "EnumeratedType", name |-> "E", tag |-> None, id |-> 111,
                val |-> r, has_ext |-> TRUE, ext |-> x] :
                 r \in EnumItems(n[1], 0, RootNumbers), x \in EnumItems(n[2], n[1], ExtNumbers)}
               : n \in {m \in (1..MaxEnum) \X (0..MaxEnum) : m[1] + m[2] <= MaxEnum}}


\* the CHOICE types: up to MaxAlt alternatives named a, b, ..., each with a
\* context tag of its own or an untagged INTEGER, after the first of which
\* the extension marker may stand
MaxAlt == 3
MaxChoiceCalls == 2
Alternatives(n, first) ==
  {[i \in 1..n |-> IF tagged[i]
                   THEN Alternative(Chr("abcdefgh", first + i), "BER_CLASS_CON", Str(first + i - 1))
                   ELSE Alternative(Chr("abcdefgh", first + i), "BER_CLASS_UNI",
                                    "BER_UNI_TAG_INTEGER")] :
     tagged \in [1..n -> BOOLEAN]}
ChoiceNodes ==
  UNION {{[type |-> "ChoiceType", elt_list |-> r, has_ext |-> FALSE, ext_list |-> <<>>] :
            r \in Alternatives(n, 0)} : n \in 1..MaxAlt}
  \cup UNION {{[type |-> "ChoiceType", elt_list |-> r, has_ext |-> TRUE, ext_list |-> x] :
                 r \in Alternatives(n[1], 0), x \in Alternatives(n[2], n[1])}
               : n \in {m \in (1..MaxAlt) \X (0..MaxAlt) : m[1] + m[2] <= MaxAlt}}


\* the rows of #.TYPE_RENAME, the names with FN_BODY text and the module they
\* are used with: Z ::= INTEGER, C ::= Z, T-x ::= SEQUENCE { b Z },
\* S ::= SEQUENCE { x SEQUENCE { a INTEGER } }
RenameRows == [key : {"C", "Z", "T-x/b", "S/x"}, eth_name : {"N"}]
RenameFnNames == {"C", "S/x"}
RenameAssignments ==
  { Prim("IntegerType", "Z", 51), Type_Ref("C", "Z", 61),
    SequenceType("T-x", <<Type_Ref("b", "Z", 41)>>, 42),
    SequenceType("S", <<SequenceType("x", <<Prim("IntegerType", "a", 31)>>, 32)>>, 33) }
MaxRenameRows == 2
MaxRenameAssign == 2

\* modules whose sequences all have one component x, so that the fields
\* P/x, Q/x, ... meet under the wire name x: the i-th assignment is
\* <owner i> ::= SEQUENCE { x INTEGER | BOOLEAN | Z }
FieldOwners == <<"P", "Q", "R", "W", "Y">>
FieldComponents(i) ==
  { Prim("IntegerType", "x", 100 + i), Prim("BooleanType", "x", 110 + i),
    Type_Ref("x", "Z", 120 + i) }
FieldAssignments(i) ==
  { SequenceType(FieldOwners[i], <<c>>, 130 + i) : c \in FieldComponents(i) }
FieldRows ==
  { [key |-> FieldOwners[i] \o "/x", attr |-> ("DISPLAY" :> "BASE_HEX")] :
      i \in 1..Len(FieldOwners) }
MaxFieldRows == 2
MaxFieldAssign == 4

\* a module with an IMPORTS clause: the symbols its clauses can list (a type
\* reference Z or a value reference c, from one of two modules), and the
\* assignments of its body
ImportClauses ==
  [module : {"M-1", "M-2"}, symbol : {[cls |-> "Type_Ref", val |-> "Z"], [cls |-> "str", val |-> "c"]}]
BodyTypes ==
  { \* T-x ::= SEQUENCE { b Z }
    SequenceType("T-x", <<Type_Ref("b", "Z", 41)>>, 42),
    \* Z ::= INTEGER
    Prim("IntegerType", "Z", 51) }
BodyValues ==
  { \* c OBJECT IDENTIFIER ::= { iso(1) 3 }
    value_assign("c", Prim("ObjectIdentifierType", None, 83),
                 OidValue(<<NameAndNumber("iso", "1"), NameForm("3")>>)),
    \* a OBJECT IDENTIFIER ::= c
    value_assign("a", Prim("ObjectIdentifierType", None, 85), ValueRef("c")) }
MaxSymbols == 2
MaxBody == 2

\* a module whose components a are tagged or not and of one type, so that
\* they share the header field a:
\* S ::= SEQUENCE { a [0] IMPLICIT INTEGER }, T ::= SEQUENCE { a INTEGER },
\* K ::= CHOICE { a [1] IMPLICIT INTEGER, b BOOLEAN }, L ::= SEQUENCE OF INTEGER
Tagged(node) == [node EXCEPT !.tag = "IMPLICIT"]
WrapAssignments ==
  { SequenceType("S", <<Tagged(Prim("IntegerType", "a", 141))>>, 142),
    SequenceType("T", <<Prim("IntegerType", "a", 143)>>, 144),
    [type |-> "ChoiceType", name |-> "K", tag |-> None, id |-> 147,
     elt_list |-> <<Tagged(Prim("IntegerType", "a", 145)), Prim("BooleanType", "b", 146)>>],
    SequenceOfType("L", Prim("IntegerType", None, 148), 149) }
MaxWrapAssign == 2

\* a module whose references form cycles: B refers to itself through its
\* component, G refers to B, C and D are aliases of each other, F has a
\* component of type C; the values a and b refer to each other
TermTypes ==
  { \* B ::= SEQUENCE { g SEQUENCE OF B }
    SequenceType("B", <<SequenceOfType("g", Type_Ref(None, "B", 21), 22)>>, 23),
    \* G ::= SEQUENCE { k B }
    SequenceType("G", <<Type_Ref("k", "B", 151)>>, 152),
    \* C ::= D
    Type_Ref("C", "D", 61),
    \* D ::= C
    Type_Ref("D", "C", 62),
    \* F ::= SEQUENCE { h C }
    SequenceType("F", <<Type_Ref("h", "C", 63)>>, 64) }
TermValues ==
  { \* a OBJECT IDENTIFIER ::= b
    value_assign("a", Prim("ObjectIdentifierType", None, 81), ValueRef("b")),
    \* b OBJECT IDENTIFIER ::= a
    value_assign("b", Prim("ObjectIdentifierType", None, 86), ValueRef("a")) }
TermRows == { [key |-> "a", flag |-> 1] }
MaxTermRows == 1
MaxTermAssign == 3
MaxTermValues == 2

\* the module compiled after a conformance file was read: A ::= INTEGER
NamedAssignments == {Prim("IntegerType", "A", 51)}

\*--- the run of eth_main ------------------------------------------------------
\* no function is followed statement by statement
NoFrame == [k |-> ""]

M == [ectx |-> ectx, conform |-> conform, err |-> "", warn |-> warn]

\* the machine m after a call becomes the state; an exception ends the run
Becomes(m, next) ==
  /\ ectx' = m.ectx
  /\ conform' = m.conform
  /\ warn' = m.warn
  /\ err' = m.err
  /\ pc' = IF m.err # "" THEN "fatal" ELSE next

Called(fn, key) == call' = [fn |-> fn, key |-> key]

\* a call of a method of EthCnf on the table (or the FN_ context) and the key
CalledOn(fn, table, key) == call' = [fn |-> fn, key |-> key, table |-> table]

InitObjects ==
  /\ conform = EthCnfInit
  /\ err = ""
  /\ warn = <<>>
  /\ out = [fn |-> <<>>, exists |-> FALSE]
  /\ call = [fn |-> "", key |-> ""]

\* eth_main with any of the options -b and -X: the modules are parsed and registered
Init ==
  /\ ectx \in {[EthCtxInit EXCEPT !.encoding = enc, !.new = n] :
                 enc \in {"per", "ber"}, n \in BOOLEAN}
  /\ InitObjects
  /\ fs = EmptyDict /\ frame = NoFrame
  /\ pc = "to_eth"

\* eth_main with the option -c alone: the conformance file is read first
InitCnf ==
  /\ ectx = EthCtxInit
  /\ InitObjects
  /\ fs = EmptyDict /\ frame = NoFrame
  /\ pc = "read"

\* the lines read so far: the rows added and the duplicates warned about
LineNo ==
  LET RECURSIVE Rows(_)
      Rows(ts) == IF ts = {} THEN 0
                  ELSE LET t == CHOOSE x \in ts : TRUE
                       IN Cardinality(DOMAIN conform.table[t]) + Rows(ts \ {t})
  IN Rows(TableNames) + Len(warn) + 1

\* EthCnf.read, one line in the context EXPORTS
ReadExports ==
  /\ pc = "read"
  /\ LineNo <= MaxRows
  /\ \E r \in ExportRows :
       /\ Becomes(add_item(M, "EXPORTS", r.key, CnfFile, LineNo, ("flag" :> r.flag)), "read")
       /\ Called("add_item", r.key)
  /\ UNCHANGED <<out, fs, frame>>

\* EthCnf.read, one line in the context of one of the attribute tables
ReadAttr ==
  /\ pc = "read"
  /\ LineNo <= MaxRows
  /\ \E r \in AttrRows :
       /\ Becomes(add_item(M, r.table, r.key, CnfFile, LineNo, ("attr" :> r.attr)), "read")
       /\ Called("add_item", r.key)
  /\ UNCHANGED <<out, fs, frame>>

\* EthCnf.read, the end of the file
ReadEnd ==
  /\ pc = "read"
  /\ pc' = "to_eth"
  /\ Called("read", CnfFile)
  /\ UNCHANGED <<ectx, conform, err, warn, out, fs, frame>>

\* Module_Body.to_eth, one symbol of an import clause
ImportType ==
  /\ pc = "to_eth"
  /\ Len(ectx.assign_ord) = 0 /\ Len(ectx.type_imp) < MaxImport
  /\ \E s \in ImportNames :
       LET proto == use_item_val(M, "MODULE_IMPORT", ImportModule, ReplaceHyphen(ImportModule))
       IN /\ Becomes(eth_import_type(use_item_mark(M, "MODULE_IMPORT", ImportModule),
                                     s, ImportModule, proto), "to_eth")
          /\ Called("eth_import_type", s)
  /\ UNCHANGED <<out, fs, frame>>

\* Module_Body.to_eth, one value symbol of an import clause
ImportValue ==
  /\ pc = "to_eth"
  /\ Len(ectx.vassign_ord) = 0 /\ Len(ectx.value_imp) < MaxImport
  /\ \E s \in ImportValueNames :
       LET proto == use_item_val(M, "MODULE_IMPORT", ImportModule, ReplaceHyphen(ImportModule))
       IN /\ Becomes(eth_import_value(use_item_mark(M, "MODULE_IMPORT", ImportModule),
                                      s, ImportModule, proto), "to_eth")
          /\ Called("eth_import_value", s)
  /\ UNCHANGED <<out, fs, frame>>

\* Module_Body.to_eth, one assignment of assign_list: a.eth_reg('', ectx)
RegisterAssignment ==
  /\ pc = "to_eth"
  /\ Len(ectx.assign_ord) < MaxAssign
  /\ \E a \in Assignments :
       /\ Becomes(Type_eth_reg(M, a, "", "", None), "to_eth")
       /\ Called("eth_reg", a.name)
  /\ UNCHANGED <<out, fs, frame>>

\* Module_Body.to_eth, one value assignment of assign_list: a.eth_reg('', ectx)
RegisterValue ==
  /\ pc = "to_eth"
  /\ Len(ectx.vassign_ord) < MaxValue
  /\ \E a \in ValueAssignments :
       /\ Becomes(value_assign_eth_reg(M, a), "to_eth")
       /\ Called("eth_reg", a.ident)
  /\ UNCHANGED <<out, fs, frame>>

\* eth_do_module: ectx.eth_prepare()
Prepare ==
  /\ pc = "to_eth"
  /\ Becomes(eth_prepare(M), "prepared")
  /\ Called("eth_prepare", "")
  /\ UNCHANGED <<out, fs, frame>>

\* eth_do_module: ectx.eth_output_types()
OutputTypes ==
  /\ pc = "prepared"
  /\ out' = eth_output_types(ectx, conform)
  /\ pc' = "done"
  /\ Called("eth_output_types", "")
  /\ UNCHANGED <<ectx, conform, err, warn, fs, frame>>

\* EthCnf.read, one line in the context EXPORTS, USER_DEFINED or NO_EMIT
ReadFlag ==
  /\ pc = "read"
  /\ LineNo <= MaxFlagRows
  /\ \E r \in FlagRows :
       /\ Becomes(add_item(M, r.table, r.key, CnfFile, LineNo, ("flag" :> r.flag)), "read")
       /\ CalledOn("add_item", r.table, r.key)
  /\ UNCHANGED <<out, fs, frame>>

\* Module_Body.to_eth, one assignment of the module with the flagged types
RegisterFlagged ==
  /\ pc = "to_eth"
  /\ Len(ectx.assign_ord) < MaxFlagAssign
  /\ \E a \in FlagAssignments :
       /\ Becomes(Type_eth_reg(M, a, "", "", None), "to_eth")
       /\ Called("eth_reg", a.name)
  /\ UNCHANGED <<out, fs, frame>>

\* eth_main started with an input file and up to MaxOpts options
InitMain ==
  /\ ectx = [EthCtxInit EXCEPT !.encoding = "per", !.new = TRUE]
  /\ InitObjects
  /\ fs = EmptyDict
  /\ frame \in {MainFrame(fn, opts) :
                 fn \in InputFiles, opts \in UNION {[1..n -> OptPool] : n \in 0..MaxOpts}}
  /\ pc = "opts"

\* eth_main, one pass of the loop for o, a in opts
Option ==
  /\ pc = "opts"
  /\ frame.i < Len(frame.opts)
  /\ \E oa \in {frame.opts[frame.i + 1]} :
       /\ frame' = MainOption(frame, oa[1], oa[2])
       /\ ectx' = IF oa[1] = "-b" THEN [ectx EXCEPT !.encoding = "ber"] ELSE ectx
       /\ pc' = IF oa[1] = "-h" THEN "exit" ELSE "opts"
       /\ Called("getopt", oa[1])
  /\ UNCHANGED <<conform, err, warn, out, fs>>

\* eth_main after the loop: the input file is read and parsed
ParseInput ==
  /\ pc = "opts"
  /\ frame.i = Len(frame.opts)
  /\ pc' = "parsed"
  /\ Called("parse", frame.fn)
  /\ UNCHANGED <<ectx, conform, err, warn, out, fs, frame>>

\* eth_output_types: fn = self.eth_output_fname('fn')
OutputFname ==
  /\ pc = "parsed"
  /\ pc' = "named"
  /\ Called("eth_output_fname", eth_output_fname(frame.outnm, "fn", "c"))
  /\ UNCHANGED <<ectx, conform, err, warn, out, fs, frame>>

\* eth_main with -s t after the modules were written
InitInclude ==
  /\ ectx = EthCtxInit
  /\ InitObjects
  /\ \E t \in UNION {[1..n -> TemplatePool] : n \in 0..MaxTemplate} :
       fs = ("t.c" :> t) @@ FragmentFiles
  /\ frame \in {[k |-> "main", remove_inc |-> b] : b \in BOOLEAN}
  /\ pc = "single"

Out == frame.out_nm

\* a statement of make_include: the files and the locals change, at is the next
Statement(at, files, locals) ==
  /\ pc = "make_include" /\ frame.at = at
  /\ fs' = files
  /\ frame' = locals
  /\ Called("make_include", at)
  /\ UNCHANGED <<ectx, conform, err, warn, out, pc>>

\* make_include: fin, fout = file(...) and the writes before the loop
IncludeOpen ==
  /\ pc = "single"
  /\ pc' = "make_include"
  /\ frame' = IncludeFrame("packet-p.c", "t.c", IncNames, frame.remove_inc)
  /\ fs' = Put(fs, "packet-p.c", IncludeHeader("packet-p.c", "t.c", IncNames))
  /\ Called("make_include", "open")
  /\ UNCHANGED <<ectx, conform, err, warn, out>>

\* line = fin.readline(); if (line == ''): break; the test of the include
IncludeReadLine ==
  /\ frame.k = "make_include" /\ frame.fin < Len(fs[frame.in_nm])
  /\ \E line \in {fs[frame.in_nm][frame.fin + 1]} :
       Statement("readline", fs,
                 [frame EXCEPT !.fin = @ + 1, !.line = line, !.fname = include(line),
                               !.at = IF Replaced(include(line), frame.inc_nms, fs)
                                      THEN "open_comment" ELSE "write_line"])

\* else: fout.write(line)
IncludeWriteLine ==
  /\ frame.k = "make_include"
  /\ Statement("write_line", [fs EXCEPT ![Out] = Write(@, frame.line)],
               [frame EXCEPT !.at = "readline"])

\* the three writes before the included file
IncludeOpenComment ==
  /\ frame.k = "make_include"
  /\ Statement("open_comment",
               [fs EXCEPT ![Out] = WriteAll(@, <<NL, "/*--- Included file: " \o frame.fname
                                                    \o " ---*/" \o NL, NL>>, 1)],
               [frame EXCEPT !.at = "open_inc"])

\* finc = file(result.group('fname'), "r")
IncludeOpenInc ==
  /\ frame.k = "make_include"
  /\ Statement("open_inc", fs, [frame EXCEPT !.finc = "open", !.at = "copy"])

\* fout.write(finc.read())
IncludeCopy ==
  /\ frame.k = "make_include"
  /\ Statement("copy", [fs EXCEPT ![Out] = WriteAll(@, fs[frame.fname], 1)],
               [frame EXCEPT !.at = "close_comment"])

\* the three writes after the included file
IncludeCloseComment ==
  /\ frame.k = "make_include"
  /\ Statement("close_comment",
               [fs EXCEPT ![Out] = WriteAll(@, <<NL, "/*--- End of included file: "
                                                    \o frame.fname \o " ---*/" \o NL, NL>>, 1)],
               [frame EXCEPT !.at = "close_inc"])

\* finc.close()
IncludeCloseInc ==
  /\ frame.k = "make_include"
  /\ Statement("close_inc", fs, [frame EXCEPT !.finc = "closed", !.at = "unlink"])

\* if (remove_inc): os.unlink(result.group('fname'))
IncludeUnlink ==
  /\ frame.k = "make_include"
  /\ Statement("unlink", IF frame.remove_inc THEN DelKey(fs, frame.fname) ELSE fs,
               [frame EXCEPT !.at = "readline"])

\* the end of the template: fout.close(), fin.close()
IncludeClose ==
  /\ pc = "make_include" /\ frame.at = "readline"
  /\ frame.fin = Len(fs[frame.in_nm])
  /\ pc' = "spliced"
  /\ frame' = [frame EXCEPT !.at = "closed"]
  /\ Called("make_include", "close")
  /\ UNCHANGED <<ectx, conform, err, warn, out, fs>>

\* Module_Body.to_eth: the assignment E ::= ENUMERATED { ... } is registered
RegisterEnum ==
  /\ pc = "to_eth"
  /\ Len(ectx.assign_ord) = 0
  /\ \E a \in EnumNodes :
       /\ Becomes(Type_eth_reg(M, a, "", "", None), "to_eth")
       /\ Called("eth_reg", a.name)
  /\ UNCHANGED <<out, fs, frame>>

\* eth_output_types: fx.write(self.eth_type[t]['val'].eth_type_vals(...)) for
\* the type E
OutputEnumVals ==
  /\ pc = "prepared"
  /\ HasKey(ectx.eth_type, "E")
  /\ out' = [fn |-> <<eth_vals(ectx, "E", EnumVals(ectx.eth_type["E"].val).vals)>>,
             exists |-> TRUE]
  /\ pc' = "vals"
  /\ Called("eth_type_vals", "E")
  /\ UNCHANGED <<ectx, conform, err, warn, fs, frame>>


\* a CHOICE type of the module and the encoding and API chosen; decl keeps the
\* alternatives as declared
InitChoice ==
  /\ ectx \in {[EthCtxInit EXCEPT !.encoding = enc, !.new = n] :
                 enc \in {"per", "ber"}, n \in BOOLEAN}
  /\ InitObjects
  /\ fs = EmptyDict
  /\ frame \in {[k |-> "choice", node |-> c, decl |-> c, calls |-> 0] : c \in ChoiceNodes}
  /\ pc = "output"

\* a call of a method of the ChoiceType object: the object and the output
ChoiceCall(fn, node, written) ==
  /\ pc = "output" /\ frame.calls < MaxChoiceCalls
  /\ frame' = [frame EXCEPT !.node = node, !.calls = @ + 1]
  /\ out' = [fn |-> <<written>>, exists |-> TRUE]
  /\ Called(fn, "")
  /\ UNCHANGED <<ectx, conform, err, warn, pc, fs>>

\* e.GetTag(ectx) of an untagged alternative or element that is this choice
CallGetTTag ==
  \E r \in {ChoiceGetTTag(frame.node)} :
    ChoiceCall("GetTTag", r.c, [k |-> "tag", ret |-> r.ret])

\* eth_output_types: the value table of the choice
CallChoiceVals ==
  \E r \in {ChoiceTypeVals(frame.node, Ber(ectx))} :
    ChoiceCall("eth_type_vals", r.c, [k |-> "type_vals", vals |-> r.vals])

\* eth_output_types: the element table of the function of the choice
CallChoiceFn ==
  \E r \in {ChoiceTypeFn(frame.node, Ber(ectx), ectx.new)} :
    ChoiceCall("eth_type_fn", r.c, [k |-> "choice", rows |-> r.rows])


\* EthCnf.read, one line in the context TYPE_RENAME
ReadRename ==
  /\ pc = "read"
  /\ LineNo <= MaxRenameRows
  /\ \E r \in RenameRows :
       /\ Becomes(add_item(M, "TYPE_RENAME", r.key, CnfFile, LineNo,
                           ("eth_name" :> r.eth_name)), "read")
       /\ CalledOn("add_item", "TYPE_RENAME", r.key)
  /\ UNCHANGED <<out, fs, frame>>

\* EthCnf.read, one line in the context FN_BODY of a name
ReadFnBody ==
  /\ pc = "read"
  /\ conform.fn = EmptyDict
  /\ \E n \in RenameFnNames :
       /\ Becomes(add_fn_line(M, n, "FN_BODY", "  x;", CnfFile, LineNo), "read")
       /\ CalledOn("add_fn_line", "FN_BODY", n)
  /\ UNCHANGED <<out, fs, frame>>

\* Module_Body.to_eth, one assignment of the module with the renamed types
RegisterRenamed ==
  /\ pc = "to_eth"
  /\ Len(ectx.assign_ord) < MaxRenameAssign
  /\ \E a \in RenameAssignments :
       /\ Becomes(Type_eth_reg(M, a, "", "", None), "to_eth")
       /\ Called("eth_reg", a.name)
  /\ UNCHANGED <<out, fs, frame>>


\* eth_output_types: fx.write(self.eth_type[t]['val'].eth_type_fn(...)) for
\* the type E
OutputEnumFn ==
  /\ pc = "vals"
  /\ \E r \in {Enum_eth_type_fn(M, "E")} :
       /\ Becomes(r.m, "done")
       /\ out' = [out EXCEPT !.fn = @ \o r.written]
  /\ Called("eth_type_fn", "E")
  /\ UNCHANGED <<fs, frame>>

\* EthCnf.read, one line in the context FIELD_ATTR
ReadFieldAttr ==
  /\ pc = "read"
  /\ LineNo <= MaxFieldRows
  /\ \E r \in FieldRows :
       /\ Becomes(add_item(M, "FIELD_ATTR", r.key, CnfFile, LineNo, ("attr" :> r.attr)), "read")
       /\ CalledOn("add_item", "FIELD_ATTR", r.key)
  /\ UNCHANGED <<out, fs, frame>>

\* Module_Body.to_eth, the next assignment of a module of one-component sequences
RegisterOwner ==
  /\ pc = "to_eth"
  /\ Len(ectx.assign_ord) < MaxFieldAssign
  /\ Len(ectx.assign_ord) < Len(FieldOwners)
  /\ \E a \in FieldAssignments(Len(ectx.assign_ord) + 1) :
       /\ Becomes(Type_eth_reg(M, a, "", "", None), "to_eth")
       /\ Called("eth_reg", a.name)
  /\ UNCHANGED <<out, fs, frame>>

\* Module_Body.to_eth, one symbol of one import clause
ImportSymbol ==
  /\ pc = "to_eth"
  /\ Len(ectx.assign_ord) + Len(ectx.vassign_ord) = 0
  /\ Len(ectx.type_imp) + Len(ectx.value_imp) < MaxSymbols
  /\ \E i \in ImportClauses :
       LET proto == use_item_val(M, "MODULE_IMPORT", i.module, ReplaceHyphen(i.module))
           m0 == use_item_mark(M, "MODULE_IMPORT", i.module)
       IN /\ Becomes(IF i.symbol.cls = "Type_Ref"
                     THEN eth_import_type(m0, i.symbol.val, i.module, proto)
                     ELSE eth_import_value(m0, i.symbol.val, i.module, proto), "to_eth")
          /\ Called(IF i.symbol.cls = "Type_Ref" THEN "eth_import_type" ELSE "eth_import_value",
                    i.symbol.val)
  /\ UNCHANGED <<out, fs, frame>>

\* Module_Body.to_eth, the next assignment of the body, a type assignment
RegisterBodyType ==
  /\ pc = "to_eth"
  /\ Len(ectx.assign_ord) + Len(ectx.vassign_ord) < MaxBody
  /\ \E a \in BodyTypes :
       /\ Becomes(Type_eth_reg(M, a, "", "", None), "to_eth")
       /\ Called("eth_reg", a.name)
  /\ UNCHANGED <<out, fs, frame>>

\* Module_Body.to_eth, the next assignment of the body, a value assignment
RegisterBodyValue ==
  /\ pc = "to_eth"
  /\ Len(ectx.assign_ord) + Len(ectx.vassign_ord) < MaxBody
  /\ \E a \in BodyValues :
       /\ Becomes(value_assign_eth_reg(M, a), "to_eth")
       /\ Called("eth_reg", a.ident)
  /\ UNCHANGED <<out, fs, frame>>

\* Module_Body.to_eth, the next assignment of a module with tagged components
RegisterTagged ==
  /\ pc = "to_eth"
  /\ Len(ectx.assign_ord) < MaxWrapAssign
  /\ \E a \in WrapAssignments :
       /\ Becomes(Type_eth_reg(M, a, "", "", None), "to_eth")
       /\ Called("eth_reg", a.name)
  /\ UNCHANGED <<out, fs, frame>>

\* EthCnf.read, one line in the context EXPORTS that names a value
ReadValueExport ==
  /\ pc = "read"
  /\ LineNo <= MaxTermRows
  /\ \E r \in TermRows :
       /\ Becomes(add_item(M, "EXPORTS", r.key, CnfFile, LineNo, ("flag" :> r.flag)), "read")
       /\ CalledOn("add_item", "EXPORTS", r.key)
  /\ UNCHANGED <<out, fs, frame>>

\* Module_Body.to_eth, the next assignment of the module of cycles, a type
RegisterTermType ==
  /\ pc = "to_eth"
  /\ Len(ectx.assign_ord) < MaxTermAssign
  /\ \E a \in TermTypes :
       /\ Becomes(Type_eth_reg(M, a, "", "", None), "to_eth")
       /\ Called("eth_reg", a.name)
  /\ UNCHANGED <<out, fs, frame>>

\* Module_Body.to_eth, the next assignment of the module of cycles, a value
RegisterTermValue ==
  /\ pc = "to_eth"
  /\ Len(ectx.vassign_ord) < MaxTermValues
  /\ \E a \in TermValues :
       /\ Becomes(value_assign_eth_reg(M, a), "to_eth")
       /\ Called("eth_reg", a.ident)
  /\ UNCHANGED <<out, fs, frame>>

\* eth_prepare from its first statement to the head of the loop of the export
\* propagation: the section "types" and the loop that fills value_dep
PrepareBegin ==
  /\ pc = "to_eth"
  /\ LET F(m1) == IF m1.err # "" THEN m1
                  ELSE PrepValueDep([m1 EXCEPT !.ectx.value_dep = EmptyDict], 1)
     IN Becomes(F(eth_prepare_types(M)), "value_dep")
  /\ frame' = [k |-> "export", i |-> 1, v |-> ""]
  /\ Called("eth_prepare", "")
  /\ UNCHANGED <<out, fs>>

\* where ExportFor is in eth_prepare and where it leaves it
ExportForAt ==
  /\ pc = "value_dep" /\ frame.v = ""
  /\ frame' = IF frame.i > Len(ectx.value_ord)
              THEN [k |-> "fields", i |-> 1, attr |-> FALSE, type |-> "", types |-> <<>>]
              ELSE IF ectx.value[ectx.value_ord[frame.i]].export = 0
                   THEN [frame EXCEPT !.i = @ + 1]
                   ELSE [frame EXCEPT !.v = ectx.value_ord[frame.i]]

\* for v in self.value_ord (export propagation): the next value, skipped or
\* entered; after the last one the section "values" up to the loop over the fields
ExportFor ==
  /\ ExportForAt
  /\ IF frame.i > Len(ectx.value_ord)
     THEN Becomes([eth_prepare_values(M) EXCEPT !.ectx.eth_hf = EmptyDict,
                                                !.ectx.eth_hf_ord = <<>>,
                                                !.ectx.eth_hf_dupl = EmptyDict], "fields")
     ELSE UNCHANGED <<ectx, conform, err, warn, pc>>
  /\ UNCHANGED <<out, call, fs>>

\* while deparr: one pass, or the end of the loop
ExportIterate ==
  /\ pc = "value_dep" /\ frame.v # ""
  /\ IF ~HasKey(ectx.value_dep, frame.v) \/ Len(ectx.value_dep[frame.v]) = 0
     THEN /\ frame' = [frame EXCEPT !.v = "", !.i = @ + 1]
          /\ UNCHANGED <<ectx, conform, err, warn, pc>>
     ELSE /\ Becomes(ExportIter(M, frame.v), "value_dep")
          /\ UNCHANGED frame
  /\ UNCHANGED <<out, call, fs>>

\* where FieldFor is in eth_prepare and where it leaves it: at the next field,
\* or in eth_get_type_attr for this one
FieldForAt ==
  /\ pc = "fields" /\ ~frame.attr
  /\ IF frame.i > Len(ectx.field_ord)
     THEN frame' = [k |-> "type_dep", i |-> 1,
                    w |-> [stack |-> <<>>, stackx |-> EmptyDict, x |-> {}, ord1 |-> <<>>,
                           cycle |-> <<>>, err |-> ""]]
     ELSE frame' \in {[frame EXCEPT !.i = @ + 1],
                      [frame EXCEPT !.attr = TRUE,
                                    !.type = ectx.field[ectx.field_ord[frame.i]].type,
                                    !.types = <<ectx.field[ectx.field_ord[frame.i]].type>>]}

\* for f in self.field_ord: the body for the next field up to the call of
\* eth_get_type_attr (the body calls it exactly when it appends to eth_hf_ord),
\* the whole body when the field shares a header field; after the last field,
\* the first statements of the section "type dependencies"
FieldFor ==
  /\ FieldForAt
  /\ IF frame.i > Len(ectx.field_ord)
     THEN /\ ectx' = [ectx EXCEPT !.eth_type_ord1 = <<>>, !.eth_dep_cycle = <<>>,
                                  !.dep_cycle_eth_type = EmptyDict]
          /\ pc' = "type_dep"
          /\ UNCHANGED <<conform, err, warn>>
     ELSE LET f == ectx.field_ord[frame.i] IN
          IF Len(PrepField(M, f).ectx.eth_hf_ord) = Len(ectx.eth_hf_ord)
          THEN /\ ~frame'.attr
               /\ Becomes(PrepField(M, f), "fields")
          ELSE /\ frame'.attr
               /\ UNCHANGED <<ectx, conform, err, warn, pc>>
  /\ UNCHANGED <<out, call, fs>>

\* where AttrIterate is in eth_prepare and where it leaves it
AttrIterateAt ==
  /\ pc = "fields" /\ frame.attr
  /\ frame' = IF AttrLoopGoes(ectx, frame.type)
              THEN [frame EXCEPT
                      !.type = ectx.type[frame.type].val.val,
                      !.types = IF Len(@) <= Cardinality(DOMAIN ectx.type)
                                THEN Append(@, ectx.type[frame.type].val.val) ELSE @]
              ELSE [frame EXCEPT !.attr = FALSE, !.i = @ + 1, !.type = "", !.types = <<>>]

\* the first while loop of eth_get_type_attr: one pass, or the end of the loop
\* and the rest of the body for the field.  self.type is not changed by the
\* loop, and a list longer than the type table holds a key twice: from there on
\* the loop never ends and the growth of the list types is not followed
AttrIterate ==
  /\ AttrIterateAt
  /\ IF AttrLoopGoes(ectx, frame.type)
     THEN UNCHANGED <<ectx, conform, err, warn, pc>>
     ELSE Becomes(PrepField(M, ectx.field_ord[frame.i]), "fields")
  /\ UNCHANGED <<out, call, fs>>

\* for t in self.type_ord: the next root of the walk, skipped or pushed; after
\* the last one the loop that fills dep_cycle_eth_type and the rest of eth_prepare
DepFor ==
  /\ pc = "type_dep" /\ Len(frame.w.stack) = 0
  /\ IF frame.i > Len(ectx.type_ord)
     THEN /\ Becomes(eth_prepare_value_ord(CycleIndex(M, frame.w.cycle, 0)), "prepared")
          /\ frame' = NoFrame
     ELSE /\ LET t == ectx.type_ord[frame.i] IN
             frame' = [frame EXCEPT
                         !.i = @ + 1,
                         !.w = IF ectx.type[t].ethname \in frame.w.x THEN @
                               ELSE [@ EXCEPT !.stack = <<t>>,
                                              !.stackx = Put(EmptyDict, t,
                                                             Get(ectx.type_dep, t, <<>>))]]
          /\ UNCHANGED <<ectx, conform, err, warn, pc>>
  /\ UNCHANGED <<out, call, fs>>

\* while stack: one pass; the lists eth_type_ord1 and eth_dep_cycle are the
\* ones the walk appends to
DepIterate ==
  /\ pc = "type_dep" /\ Len(frame.w.stack) > 0
  /\ LET F(w) ==
           /\ frame' = [frame EXCEPT !.w = w]
           /\ Becomes(IF w.err # "" THEN Raise(M, w.err)
                      ELSE [M EXCEPT !.ectx.eth_type_ord1 = w.ord1,
                                     !.ectx.eth_dep_cycle = w.cycle], "type_dep")
     IN F(DepIter(M, frame.w))
  /\ UNCHANGED <<out, call, fs>>

\* the calls made so far by the direct callers of the registration methods
Calls ==
  Len(ectx.assign_ord) + Len(ectx.type_ord) + Len(ectx.value_ord) + Len(ectx.field_ord)

\* a call of EthCtx.eth_reg_assign
CallRegAssign ==
  /\ pc = "to_eth" /\ Calls < MaxCalls
  /\ \E ident \in RegIdents, val \in RegVals :
       /\ Becomes(eth_reg_assign(M, ident, val), "to_eth")
       /\ Called("eth_reg_assign", ident)
  /\ UNCHANGED <<out, fs, frame>>

\* a call of EthCtx.eth_reg_type
CallRegType ==
  /\ pc = "to_eth" /\ Calls < MaxCalls
  /\ \E ident \in RegIdents, val \in RegVals :
       /\ Becomes(eth_reg_type(M, ident, val), "to_eth")
       /\ Called("eth_reg_type", ident)
  /\ UNCHANGED <<out, fs, frame>>

\* a call of EthCtx.eth_reg_value
CallRegValue ==
  /\ pc = "to_eth" /\ Calls < MaxCalls
  /\ \E ident \in RegValueIdents, value \in {ValueRef("b")} :
       /\ Becomes(eth_reg_value(M, ident, Prim("ObjectIdentifierType", None, 81), value),
                  "to_eth")
       /\ Called("eth_reg_value", ident)
  /\ UNCHANGED <<out, fs, frame>>

\* a call of EthCtx.eth_reg_field
CallRegField ==
  /\ pc = "to_eth" /\ Calls < MaxCalls
  /\ \E ident \in RegIdents, parent \in {None, "A"} :
       /\ Becomes(eth_reg_field(M, ident, "A", "", parent, FALSE), "to_eth")
       /\ Called("eth_reg_field", ident)
  /\ UNCHANGED <<out, fs, frame>>

\* the methods of EthCnf called one by one
InitCnfCalls ==
  /\ ectx = EthCtxInit
  /\ InitObjects
  /\ fs = EmptyDict /\ frame = NoFrame
  /\ pc = "cnf"

\* the rows, the lines of FN_ blocks and the warnings there are: each came
\* from one line of the file, and the next call is made for the next line
CnfSize ==
  LET RECURSIVE Rows(_)
      Rows(ts) == IF ts = {} THEN 0
                  ELSE LET t == CHOOSE x \in ts : TRUE
                       IN Cardinality(DOMAIN conform.table[t]) + Rows(ts \ {t})
      RECURSIVE Lines(_)
      Lines(ns) == IF ns = {} THEN 0
                   ELSE LET n == CHOOSE x \in ns : TRUE
                        IN Len(get_fn_text(M, n, "FN_HDR")) + Len(get_fn_text(M, n, "FN_FTR"))
                           + Len(get_fn_text(M, n, "FN_BODY")) + Lines(ns \ {n})
  IN Rows(TableNames) + Lines(DOMAIN conform.fn) + Len(warn)

\* a call of EthCnf.add_item
CallAddItem ==
  /\ pc = "cnf" /\ CnfSize < MaxCnfCalls
  /\ \E r \in CnfRows :
       /\ Becomes(add_item(M, r.table, r.key, CnfFile, CnfSize + 1, r.kw), "cnf")
       /\ CalledOn("add_item", r.table, r.key)
  /\ UNCHANGED <<out, fs, frame>>

\* a call of EthCnf.check_item
CallCheckItem ==
  /\ pc = "cnf"
  /\ \E r \in CnfRows :
       /\ check_item(M, r.table, r.key) \in BOOLEAN
       /\ CalledOn("check_item", r.table, r.key)
  /\ UNCHANGED <<ectx, conform, err, warn, pc, out, fs, frame>>

\* a call of EthCnf.use_item
CallUseItem ==
  /\ pc = "cnf"
  /\ \E r \in CnfRows :
       /\ Becomes(use_item_mark(M, r.table, r.key), "cnf")
       /\ CalledOn("use_item", r.table, r.key)
  /\ UNCHANGED <<out, fs, frame>>

\* a call of EthCnf.add_fn_line
CallAddFnLine ==
  /\ pc = "cnf" /\ CnfSize < MaxCnfCalls
  /\ \E name \in FnNames, ctx \in FnCtxs, line \in FnLines :
       /\ Becomes(add_fn_line(M, name, ctx, line, CnfFile, CnfSize + 1), "cnf")
       /\ CalledOn("add_fn_line", ctx, name)
  /\ UNCHANGED <<out, fs, frame>>

\* a call of EthCnf.get_fn_text
CallGetFnText ==
  /\ pc = "cnf"
  /\ \E name \in FnNames, ctx \in FnCtxs :
       /\ get_fn_text(M, name, ctx) \in Seq(STRING)
       /\ CalledOn("get_fn_text", ctx, name)
  /\ UNCHANGED <<ectx, conform, err, warn, pc, out, fs, frame>>

\* eth_do_module: ectx.conform.unused_report(), the last use of the tables
CallUnusedReport ==
  /\ pc = "cnf"
  /\ Becomes(unused_report(M), "reported")
  /\ CalledOn("unused_report", "", "")
  /\ UNCHANGED <<out, fs, frame>>

NextCnf ==
  CallAddItem \/ CallCheckItem \/ CallUseItem \/ CallAddFnLine \/ CallGetFnText
  \/ CallUnusedReport

SpecCnf == InitCnfCalls /\ [][NextCnf]_vars

\* eth_main with the option -c alone, the file followed line by line
InitRead ==
  /\ ectx = EthCtxInit
  /\ InitObjects
  /\ \E f \in TopFiles : fs = (CnfFile :> f) @@ IncludedFiles
  /\ frame = ReadFrame(CnfFile)
  /\ pc = "readline"

\* EthCnf.read, one pass of the loop
ReadStep ==
  /\ pc = "readline"
  /\ \E x \in {ReadPass(M, frame, fs)} :
       /\ Becomes(x.m, IF x.brk THEN "to_eth" ELSE "readline")
       /\ frame' = x.r
  /\ Called("read", frame.fn)
  /\ UNCHANGED <<out, fs>>

\* Module_Body.to_eth, the assignment of the module: a.eth_reg('', ectx)
RegisterNamed ==
  /\ pc = "to_eth"
  /\ Len(ectx.assign_ord) = 0
  /\ \E a \in NamedAssignments :
       /\ Becomes(Type_eth_reg(M, a, "", "", None), "to_eth")
       /\ Called("eth_reg", a.name)
  /\ UNCHANGED <<out, fs, frame>>

\* a conformance file read line by line, then one module up to the types written
NextRead == ReadStep \/ RegisterNamed \/ Prepare \/ OutputTypes

SpecRead == InitRead /\ [][NextRead]_vars

\* make_include statement by statement
NextInclude ==
  \/ IncludeOpen \/ IncludeReadLine \/ IncludeWriteLine \/ IncludeOpenComment
  \/ IncludeOpenInc \/ IncludeCopy \/ IncludeCloseComment \/ IncludeCloseInc
  \/ IncludeUnlink \/ IncludeClose

SpecInclude == InitInclude /\ [][NextInclude]_vars

\* a module of one ENUMERATED type up to its value table
NextEnum == RegisterEnum \/ Prepare \/ OutputEnumVals \/ OutputEnumFn

SpecEnum == Init /\ [][NextEnum]_vars


\* the methods of a ChoiceType object called during the output
NextChoice == CallGetTTag \/ CallChoiceVals \/ CallChoiceFn

SpecChoice == InitChoice /\ [][NextChoice]_vars


\* a conformance file of TYPE_RENAME rows and FN_BODY text, then the module
NextRename == ReadRename \/ ReadFnBody \/ ReadEnd \/ RegisterRenamed \/ Prepare

SpecRename == InitCnf /\ [][NextRename]_vars

\* the fields of a module whose components share one name
NextFields == ReadFieldAttr \/ ReadEnd \/ RegisterOwner \/ Prepare

SpecFields == InitCnf /\ [][NextFields]_vars

\* a module with an import clause and a body of types and values
NextImports == ImportSymbol \/ RegisterBodyType \/ RegisterBodyValue \/ Prepare

SpecImports == Init /\ [][NextImports]_vars

\* a module with tagged components, up to the types written
NextWrap == RegisterTagged \/ Prepare \/ OutputTypes

SpecWrap == Init /\ [][NextWrap]_vars

\* the steps of eth_prepare by the place they leave it at
PrepareAt == ExportForAt \/ FieldForAt \/ AttrIterateAt \/ DepFor \/ DepIterate

\* eth_prepare followed loop pass by loop pass on a module whose references
\* form cycles
NextTerm ==
  \/ ReadValueExport \/ ReadEnd \/ RegisterTermType \/ RegisterTermValue
  \/ PrepareBegin \/ ExportFor \/ ExportIterate \/ FieldFor \/ AttrIterate \/ DepFor \/ DepIterate

SpecTerm == InitCnf /\ [][NextTerm]_vars

\* the same program, in which eth_prepare, once called, takes its next step
\* whenever it has one: every step of eth_prepare moves it on in the frame,
\* but for a pass of "while deparr", which takes an entry from deparr
SpecTermFair == SpecTerm /\ WF_frame(PrepareAt) /\ WF_vars(ExportIterate)

\* the command line of eth_main up to the name of the first output file
NextMain == Option \/ ParseInput \/ OutputFname

SpecMain == InitMain /\ [][NextMain]_vars

\* a conformance file of flag rows, then the module of the flagged types
NextFlags == ReadFlag \/ ReadEnd \/ RegisterFlagged \/ Prepare \/ OutputTypes

SpecFlags == InitCnf /\ [][NextFlags]_vars

\* one module without a conformance file, up to the types written
Next == ImportType \/ RegisterAssignment \/ Prepare \/ OutputTypes

Spec == Init /\ [][Next]_vars

\* the values of one module under an EXPORTS table
NextValues == ReadExports \/ ReadEnd \/ ImportValue \/ RegisterValue \/ Prepare

SpecValues == InitCnf /\ [][NextValues]_vars

\* the fields of one module under the attribute tables
NextAttr == ReadAttr \/ ReadEnd \/ RegisterAssignment \/ Prepare

SpecAttr == InitCnf /\ [][NextAttr]_vars

\* the registration methods called one by one
NextReg == ImportType \/ CallRegAssign \/ CallRegType \/ CallRegValue \/ CallRegField

SpecReg == Init /\ [][NextReg]_vars

\*--- properties of eth_prepare and eth_output_types ---------------------------
\* eth_prepare ran to its end without an exception
Prepared == pc \in {"prepared", "done"}

\* the registered, non-imported type keys, and their wire type
TypeKeys == {ectx.type_ord[i] : i \in 1..Len(ectx.type_ord)}
Wire(t) == ectx.type[t].ethname
Deps(t) == LET l == Get(ectx.type_dep, t, <<>>) IN {l[i] : i \in 1..Len(l)}
NotImported(d) == HasKey(ectx.type, d) /\ ectx.type[d].import = None
OnCycle(t) == \E i \in 1..Len(ectx.eth_dep_cycle) : InList(ectx.eth_dep_cycle[i], t)
Shared(t) == \E u \in TypeKeys : u # t /\ Wire(u) = Wire(t)

\* the positions of wire type e in the emission order
Pos(e) == {i \in 1..Len(ectx.eth_type_ord1) : ectx.eth_type_ord1[i] = e}
\* a is emitted, and first emitted before b is first emitted
Precedes(a, b) == \E i \in Pos(a) : \A j \in Pos(b) : i < j

C2_EmittedOnce ==
  Prepared =>
    \A t \in TypeKeys : Cardinality(Pos(Wire(t))) = 1

\* the writes to packet-P-fn.c that define a type, and the forward declarations
IsDefinition(r) == r.k \in {"type_fn", "type_vals"}
FwdDeclared(e) ==
  \E i \in 1..Len(out.fn) :
    /\ out.fn[i].k = "fn_h" /\ out.fn[i].t = e
    /\ \A j \in 1..Len(out.fn) : IsDefinition(out.fn[j]) => i < j

C4_EdgesResolved ==
  pc = "done" =>
    \A t \in TypeKeys : \A d \in Deps(t) :
      \/ ~NotImported(d)
      \/ Precedes(Wire(d), Wire(t))
      \/ FwdDeclared(Wire(d))

\* the definition of a type without the name it is bound to and the ids
RECURSIVE Shape(_)
Shape(node) ==
  [type |-> node.type,
   val |-> IF node.type = "Type_Ref" THEN node.val ELSE "",
   inner |-> IF node.type = "SequenceOfType" THEN <<Shape(node.val)>> ELSE <<>>,
   elts |-> IF node.type = "SequenceType"
            THEN [i \in 1..Len(node.elt_list) |->
                    [name |-> node.elt_list[i].name, shape |-> Shape(node.elt_list[i])]]
            ELSE <<>>]

\* C5: after eth_prepare, two type keys have the same wire name only if their
\* definitions are the same, and two field keys have the same header field
\* only if the wire names of their types are the same
C5_NoNameClash ==
  Prepared =>
    /\ \A t \in TypeKeys : \A u \in TypeKeys :
         Wire(t) = Wire(u) => Shape(ectx.type[t].val) = Shape(ectx.type[u].val)
    /\ \A f \in DOMAIN ectx.field : \A g \in DOMAIN ectx.field :
         ectx.field[f].ethname = ectx.field[g].ethname =>
           Wire(ectx.field[f].type) = Wire(ectx.field[g].type)

\* a type key that was neither declared nor imported
Undeclared(t) == ~InList(ectx.type_ord, t) /\ ~InList(ectx.type_imp, t)

\* C9: after eth_prepare the type key of every registered field is in the type
\* table, as a placeholder import of module and protocol 'xxx' under its own
\* name when it was neither declared nor imported
C9_FieldTypeExists ==
  Prepared =>
    \A f \in DOMAIN ectx.field :
      LET t == ectx.field[f].type IN
      /\ HasKey(ectx.type, t)
      /\ Undeclared(t) =>
           /\ ectx.type[t].import = "xxx" /\ ectx.type[t].proto = "xxx"
           /\ ectx.type[t].ethname = t

\* eth_prepare made a placeholder for the type of a field
C9_Witness ==
  /\ Prepared
  /\ \E f \in DOMAIN ectx.field :
       Undeclared(ectx.field[f].type) /\ HasKey(ectx.type, ectx.field[f].type)

\* the targets of the type references of the module: the types of the fields
\* and the right-hand sides of the assignments that are references
RefTargets ==
  {ectx.field[f].type : f \in DOMAIN ectx.field}
  \cup {ectx.type[t].val.val : t \in {u \in TypeKeys : ectx.type[u].val.type = "Type_Ref"}}

IsKeyError(e) == Len(e) >= 8 /\ SubSeq(e, 1, 8) = "KeyError"

\* C10: eth_prepare ends without a fatal error, and with a placeholder import
\* for every type reference whose target is neither declared nor imported
C10_PlaceholderForEveryRef ==
  /\ ~IsKeyError(err)
  /\ Prepared => \A t \in RefTargets : HasKey(ectx.type, t)

\*--- properties of the export of values ---------------------------------------
\* the values registered by the module, and the edges of the value-dependency
\* graph as eth_prepare leaves them in value_dep
ValueKeys == {ectx.value_ord[i] : i \in 1..Len(ectx.value_ord)}
ValueDeps(v) == LET l == Get(ectx.value_dep, v, <<>>) IN {l[i] : i \in 1..Len(l)}

RECURSIVE ValueReach(_)
\* the values reachable from the set vs, vs included
ValueReach(vs) ==
  LET nxt == vs \cup UNION {ValueDeps(v) : v \in vs}
  IN IF nxt = vs THEN vs ELSE ValueReach(nxt)

Exported(v) == ectx.value[v].export # 0
ValueNotImported(v) == ectx.value[v].import = None

AttrKeys == {"TYPE", "DISPLAY", "STRINGS", "BITMASK", "NAME", "ABBREV", "BLURB"}

\* the inherent attributes of a type, as eth_reg_type takes them from the node
Inherent(t) ==
  LET val == ectx.type[t].val
  IN ("TYPE" :> eth_ftype(val)[1]) @@ ("DISPLAY" :> eth_ftype(val)[2])
     @@ ("STRINGS" :> eth_strings(val)) @@ ("BITMASK" :> "0")

\* the layers of the attributes of the header field nm made for the field f
\* of type t, first to last
Layers(nm, f, t) ==
  << DefaultAttr, Inherent(t), use_item_val(M, "TYPE_ATTR", t, EmptyDict),
     use_item_val(M, "FIELD_ATTR", f, EmptyDict), use_item_val(M, "EFIELD_ATTR", nm, EmptyDict) >>

\* the value of the last layer that sets the key k
LastLayer(ls, k) ==
  LET i == CHOOSE i \in 1..Len(ls) :
             HasKey(ls[i], k) /\ \A j \in (i + 1)..Len(ls) : ~HasKey(ls[j], k)
  IN ls[i][k]

\* C7: for every header field made by eth_prepare for a field of a declared
\* type that is no reference, and every attribute key that a layer sets, the
\* value of the key is the one of the last layer that sets it, in the order
\* defaults, inherent attributes, TYPE_ATTR, FIELD_ATTR, EFIELD_ATTR
C7_LastLayerWins ==
  Prepared =>
    \A nm \in DOMAIN ectx.eth_hf :
      LET f == ectx.eth_hf[nm].ref[1]
          t == ectx.field[f].type
      IN (InList(ectx.type_ord, t) /\ ectx.type[t].val.type # "Type_Ref") =>
           \A k \in AttrKeys :
             (\E i \in 1..5 : HasKey(Layers(nm, f, t)[i], k)) =>
               /\ HasKey(ectx.eth_hf[nm].attr, k)
               /\ ectx.eth_hf[nm].attr[k] = LastLayer(Layers(nm, f, t), k)

\*--- properties of the registration methods -----------------------------------
\* the registration methods, their table and their order list
RegTables ==
  { [fn |-> "eth_reg_assign", tab |-> "assign", ord |-> "assign_ord", what |-> "assignment"],
    [fn |-> "eth_reg_type", tab |-> "type", ord |-> "type_ord", what |-> "type"],
    [fn |-> "eth_reg_value", tab |-> "value", ord |-> "value_ord", what |-> "value"],
    [fn |-> "eth_reg_field", tab |-> "field", ord |-> "field_ord", what |-> "field"] }

\* the step is a call of the method of T: it fails for a key in the table and
\* adds a key that is not
RegisterStep(T) ==
  LET k == call'.key
      tab == ectx[T.tab]
      tab2 == ectx'[T.tab]
  IN IF HasKey(tab, k)
     THEN /\ err' = "Duplicate " \o T.what \o " for " \o k /\ pc' = "fatal"
          /\ tab2 = tab /\ ectx'[T.ord] = ectx[T.ord]
     ELSE /\ err' = ""
          /\ DOMAIN tab2 = DOMAIN tab \cup {k}
          /\ \A j \in DOMAIN tab : tab2[j] = tab[j]
          /\ ectx'[T.ord] = Append(ectx[T.ord], k)
          /\ Cardinality({i \in 1..Len(ectx'[T.ord]) : ectx'[T.ord][i] = k}) = 1

\* C8: for the assignment, type, value and field tables, the registration of a
\* key in the table raises a fatal error and leaves the table and its order
\* list as they are; the registration of a key that is not in the table adds
\* it to the table and appends it once to the order list
C8_RegisterOnce ==
  [][\A T \in RegTables : call'.fn = T.fn => RegisterStep(T)]_vars

\* a registration failed for a key that is in its table
C8_Witness ==
  /\ pc = "fatal"
  /\ \E T \in RegTables :
       /\ call.fn = T.fn /\ HasKey(ectx[T.tab], call.key)
       /\ InList(ectx[T.ord], call.key)
       /\ err = "Duplicate " \o T.what \o " for " \o call.key


\*--- properties of the conformance tables --------------------------------------
\* the last call was a method of EthCnf named fn
LastCall(fn) == call.fn = fn /\ "table" \in DOMAIN call

\* C11: add_item on a key that its table (chk_dup true) already holds adds one
\* warning that cites the file and the line of the earlier row and leaves
\* every table as it was: payload, location and used bit of the earlier row stay
C11_FirstRowWins ==
  [][(call'.fn = "add_item" /\ HasKey(conform.table[call'.table], call'.key)
      /\ tblcfg[call'.table].chk_dup)
     => /\ conform' = conform
        /\ Len(warn') = Len(warn) + 1
        /\ SubSeq(warn', 1, Len(warn)) = warn
        /\ LET w == warn'[Len(warn')]
               row == conform.table[call'.table][call'.key]
           IN /\ w.msg = "Duplicated" /\ w.table = call'.table /\ w.key = call'.key
              /\ w.prev_fn = row.fn /\ w.prev_lineno = row.lineno]_vars

\* a duplicate was added on a later line with another payload, after the
\* earlier row was used
C11_Witness ==
  /\ LastCall("add_item")
  /\ Len(warn) > 0
  /\ LET w == warn[Len(warn)]
     IN /\ w.msg = "Duplicated" /\ w.table = call.table /\ w.key = call.key
        /\ w.table = "EXPORTS"
        /\ w.lineno > w.prev_lineno
        /\ conform.table[w.table][w.key].lineno = w.prev_lineno
        /\ conform.table[w.table][w.key].kw = ("flag" :> 1)
        /\ conform.table[w.table][w.key].used

\* the rows of all tables, as pairs of a table and a key
RowsOf(c) == {tk \in TableNames \X (UNION {DOMAIN c.table[t] : t \in TableNames}) :
                HasKey(c.table[tk[1]], tk[2])}

\* one step of the life of the used bits and of unused_report
UsedBitStep ==
  /\ \A tk \in RowsOf(conform') :
      LET t == tk[1]
          k == tk[2]
          called == call'.fn = "use_item" /\ call'.table = t /\ call'.key = k
      IN IF tk \notin RowsOf(conform)
         THEN call'.fn = "add_item" /\ ~conform'.table[t][k].used
         ELSE /\ (conform.table[t][k].used => conform'.table[t][k].used)
              /\ (called => conform'.table[t][k].used)
              /\ (conform'.table[t][k].used /\ ~conform.table[t][k].used) => called
  /\ (call'.fn = "check_item" => conform' = conform)
  /\ call'.fn = "unused_report"
       => /\ conform' = conform
          /\ Len(warn') >= Len(warn) /\ SubSeq(warn', 1, Len(warn)) = warn
          /\ LET new == SubSeq(warn', Len(warn) + 1, Len(warn'))
                 unused == {tk \in RowsOf(conform) :
                              tblcfg[tk[1]].chk_use /\ ~conform.table[tk[1]][tk[2]].used}
             IN /\ {<<new[i].table, new[i].key>> : i \in 1..Len(new)} = unused
                /\ Len(new) = Cardinality(unused)
                /\ \A i \in 1..Len(new) :
                     /\ new[i].msg = "Unused"
                     /\ new[i].fn = conform.table[new[i].table][new[i].key].fn
                     /\ new[i].lineno = conform.table[new[i].table][new[i].key].lineno

\* C12: the used bit of a row is false when the row is added, becomes true
\* exactly when use_item is called with its table and key, is never reset and
\* is not changed by check_item; unused_report warns for exactly the rows
\* whose used bit is false in the tables configured with chk_use true
C12_UsedBit == [][UsedBitStep]_vars

\* unused_report ran over a used row, an unused row of EXPORTS and an unused
\* row of TYPE_ATTR, whose use is not checked, and warned about one row
C12_Witness ==
  /\ LastCall("unused_report")
  /\ \E k \in DOMAIN conform.table["EXPORTS"] : conform.table["EXPORTS"][k].used
  /\ \E k \in DOMAIN conform.table["EXPORTS"] : ~conform.table["EXPORTS"][k].used
  /\ \E k \in DOMAIN conform.table["TYPE_ATTR"] : ~conform.table["TYPE_ATTR"][k].used
  /\ Len(SelectSeq(warn, LAMBDA w : w.msg = "Unused")) = 1

\* the FN_HDR, FN_FTR and FN_BODY blocks there are, as pairs of a name and a context
FnBlocks == {nc \in (DOMAIN conform.fn) \X {"FN_HDR", "FN_FTR", "FN_BODY"} :
               IsBlock(conform.fn[nc[1]][nc[2]])}

\* C13: the FN_ blocks are usage-tracked: after unused_report a block that was
\* never spliced into a function (no type is emitted here) has an unused-row
\* warning, and a block whose text was just fetched for a function is marked used
C13_FnBlocksTracked ==
  /\ pc = "reported"
       => \A nc \in FnBlocks :
            \/ conform.fn[nc[1]][nc[2]].used
            \/ \E i \in 1..Len(warn) : warn[i].msg = "Unused" /\ warn[i].key = nc[1]
                                        /\ warn[i].table = nc[2]
  /\ (LastCall("get_fn_text") /\ <<call.key, call.table>> \in FnBlocks)
       => conform.fn[call.key][call.table].used

\*--- properties of EthCnf.read -------------------------------------------------
\* line is an INCLUDE directive that names a file there is
IsInclude(line) ==
  /\ directive(line).name = "INCLUDE"
  /\ \E t \in {SplitMax(directive(line).rest, 1)} :
       Len(t) > 0 /\ Chr(t[1], 1) # "#" /\ HasKey(fs, t[1])

RECURSIVE Expand(_, _, _)
\* the lines 1..upto of the file fn in the order they are read, each with the
\* file and the line number at which it stands; the file named by an INCLUDE
\* line follows the line (for the line upto only if last)
Expand(fn, upto, last) ==
  IF upto = 0 THEN <<>>
  ELSE Expand(fn, upto - 1, TRUE)
       \o <<[fn |-> fn, lineno |-> upto, line |-> fs[fn][upto]]>>
       \o (IF last /\ IsInclude(fs[fn][upto])
           THEN Expand(SplitMax(directive(fs[fn][upto]).rest, 1)[1],
                       Len(fs[SplitMax(directive(fs[fn][upto]).rest, 1)[1]]), TRUE)
           ELSE <<>>)

RECURSIVE Consumed(_)
\* the lines read so far: those of the including files up to their pending
\* INCLUDE line (the first i entries of the stack), then those of the open file
Consumed(i) ==
  IF i > Len(frame.stack) THEN Expand(frame.fn, frame.f, TRUE)
  ELSE Expand(frame.stack[i].fn, frame.stack[i].f, FALSE) \o Consumed(i + 1)

\* the context a directive line introduces: none for END, INCLUDE, an unknown
\* name and an FN_ directive without a name
Introduced(line) ==
  LET Ctx(d, t) ==
        IF d.name \in {"EXPORTS", "USER_DEFINED", "NO_EMIT", "MODULE_IMPORT",
                       "OMIT_ASSIGNMENT", "TYPE_RENAME", "FIELD_RENAME", "IMPORT_TAG",
                       "TYPE_ATTR", "ETYPE_ATTR", "FIELD_ATTR", "EFIELD_ATTR", "FN_PARS"}
        THEN d.name
        ELSE IF d.name \in {"FN_HDR", "FN_FTR", "FN_BODY"} /\ Len(t) > 0 /\ Chr(t[1], 1) # "#"
        THEN d.name
        ELSE None
  IN Ctx(directive(line), SplitMax(directive(line).rest, 1))

\* the index in the lines e of the last directive line before the line n, or 0
LastDirective(e, n) ==
  LET D == {i \in 1..(n - 1) : ~comment(e[i].line) /\ directive(e[i].line).name # ""}
  IN IF D = {} THEN 0 ELSE CHOOSE i \in D : \A j \in D : j <= i

\* the line is neither a comment, nor a directive, nor empty
IsContent(line) == ~comment(line) /\ directive(line).name = "" /\ ~empty(line)

\* C14: every directive line ends the context that was active before it: a
\* line that is no directive is interpreted in the context introduced by the
\* most recent directive line, in no context when that line is #.END, an
\* unknown directive, INCLUDE or an FN_ directive without a name
C14_DirectiveEndsContext ==
  (pc = "readline" /\ Len(Consumed(1)) > 0 /\ IsContent(Consumed(1)[Len(Consumed(1))].line))
    => \E e \in {Consumed(1)} :
         \E d \in {LastDirective(e, Len(e))} :
           frame.ctx = IF d = 0 THEN None ELSE Introduced(e[d].line)

RECURSIVE RefRead(_, _, _, _, _)
\* the lines e from the index i on, applied one after the other in the context
\* ctx, each at the file and the line number at which it stands
RefRead(m, ctx, name, e, i) ==
  IF i > Len(e) THEN m
  ELSE IF IsInclude(e[i].line) THEN RefRead(m, ctx, name, e, i + 1)
  ELSE LET Rest(x) == RefRead(x.m, x.r.ctx, x.r.name, e, i + 1)
       IN Rest(ReadLine(m, [ReadFrame(e[i].fn) EXCEPT !.lineno = e[i].lineno, !.ctx = ctx,
                                                      !.name = name],
                        e[i].line, fs))

\* C15: the rows are applied in file order, an included file in the place of
\* its INCLUDE line (depth first), and every row and warning records the file
\* and the line number at which its line stands: the line counter of a file
\* resumes after the INCLUDE line
C15_DepthFirst ==
  (frame.k = "read" /\ pc \in {"readline", "to_eth"} /\ Len(ectx.assign_ord) = 0 /\ err = "")
    => /\ pc = "readline" => frame.lineno = frame.f
       /\ (pc = "to_eth" /\ \E i \in 1..Len(fs[CnfFile]) : IsInclude(fs[CnfFile][i]))
            => \E x \in {RefRead(Machine(EthCtxInit, EthCnfInit), None, "", Consumed(1), 1)} :
                 conform = x.conform /\ warn = x.warn

\* p.cnf was read to its end: a row before the INCLUDE line, the rows of
\* q.cnf and of r.cnf, which q.cnf includes, and after the INCLUDE line a
\* duplicate of the first row, warned about at the line 4 of p.cnf
C15_Witness ==
  /\ frame.k = "read" /\ pc = "to_eth" /\ Len(ectx.assign_ord) = 0
  /\ DOMAIN conform.table["EXPORTS"] = {"A", "B", "C", "D"}
  /\ conform.table["EXPORTS"]["B"].fn = "p.cnf" /\ conform.table["EXPORTS"]["B"].lineno = 2
  /\ conform.table["EXPORTS"]["C"].fn = "q.cnf" /\ conform.table["EXPORTS"]["C"].lineno = 1
  /\ conform.table["EXPORTS"]["D"].fn = "r.cnf" /\ conform.table["EXPORTS"]["D"].lineno = 1
  /\ conform.table["EXPORTS"]["A"].fn = "q.cnf" /\ conform.table["EXPORTS"]["A"].lineno = 3
  /\ \E i \in 1..Len(warn) : warn[i].msg = "Duplicated" /\ warn[i].fn = "p.cnf"
                             /\ warn[i].lineno = 4 /\ warn[i].prev_lineno = 2

\* every line of the lines e between a directive #.FN_BODY name and the next
\* directive line
BodyLines(e, name) ==
  LET In(i) == \E d \in {LastDirective(e, i)} :
                 /\ d > 0
                 /\ directive(e[d].line).name = "FN_BODY"
                 /\ SplitMax(directive(e[d].line).rest, 1) = <<name>>
                 /\ (comment(e[i].line) \/ directive(e[i].line).name = "")
      Sel(x) == [i \in 1..Len(x) |-> x[i].line]
  IN Sel(SelectSeq([i \in 1..Len(e) |-> [i |-> i, line |-> e[i].line]], LAMBDA x : In(x.i)))

\* C16: the function emitted for a type that has an FN_BODY block is the
\* function header, the FN_HDR text, then every line between the #.FN_BODY
\* directive and the next directive, unchanged and in order, and nothing
\* computed, then the FN_FTR text before the line return offset
C16_BodyVerbatim ==
  (pc = "done" /\ frame.k = "read")
    => \A i \in 1..Len(out.fn) :
         (out.fn[i].k = "type_fn" /\ get_fn_body_presence(M, ectx.eth_type[out.fn[i].t].ref[1]))
           => out.fn[i].text
                = <<"", (IF out.fn[i].static THEN "static " ELSE "") \o "int",
                    "dissect_" \o Proto \o "_" \o out.fn[i].t \o "(" \o ectx.encoding \o ") {">>
                  \o get_fn_text(M, ectx.eth_type[out.fn[i].t].ref[1], "FN_HDR")
                  \o BodyLines(Consumed(1), ectx.eth_type[out.fn[i].t].ref[1])
                  \o <<"">>
                  \o get_fn_text(M, ectx.eth_type[out.fn[i].t].ref[1], "FN_FTR")
                  \o <<"  return offset;", "}">>

\* the records of kind k written for the wire type t
Written(k, t) == {i \in DOMAIN out.fn : out.fn[i].k = k /\ out.fn[i].t = t}

\* the wire types of the module that eth_output_types went through
EmittedTypes ==
  {t \in DOMAIN ectx.eth_type : ectx.eth_type[t].import = None /\ InList(ectx.eth_type_ord1, t)}

\* bit 1 of the flags of t decides its value table, and every prototype and
\* definition written for t has static exactly when the export bit is clear
FlagsDecideVals(t) ==
  LET et == ectx.eth_type[t] IN
  /\ (eth_has_vals(et.val) /\ et.no_emit < 2 /\ et.user_def >= 2)
       <=> Cardinality(Written("extern_vals", t)) = 1
  /\ (eth_has_vals(et.val) /\ et.no_emit < 2 /\ et.user_def < 2)
       <=> Cardinality(Written("type_vals", t)) = 1
  /\ Cardinality(Written("extern_vals", t)) + Cardinality(Written("type_vals", t)) <= 1
  /\ \A i \in Written("type_vals", t) : out.fn[i].static <=> (et.export < 2)
  /\ \A i \in Written("fn_h", t) \cup Written("type_fn", t) :
       out.fn[i].static <=> (et.export % 2 = 0)
  /\ \A i \in Written("type_fn", t) :
       out.fn[i].text[2] = (IF et.export % 2 = 0 THEN "static int" ELSE "int")

ArgsOf(o) == {frame.opts[i][2] : i \in {j \in DOMAIN frame.opts : frame.opts[j][1] = o}}

\* C18: after the options were processed, the stem of the output files is a
\* NAME given with -o when -o is given, wherever -o stands among the options,
\* and the protocol name otherwise
C18_StemIsDashO ==
  pc \in {"parsed", "named"} =>
    /\ ArgsOf("-o") # {} => frame.outnm \in ArgsOf("-o")
    /\ ArgsOf("-o") = {} => frame.outnm = frame.proto
    /\ pc = "named" => call.key = "packet-" \o frame.outnm \o "-fn.c"


\* what make_include writes in place of an include of the fragment f
SplicedBlock(f) ==
  <<NL, "/*--- Included file: " \o f \o " ---*/" \o NL, NL>> \o FragmentFiles[f]
  \o <<NL, "/*--- End of included file: " \o f \o " ---*/" \o NL, NL>>

RECURSIVE SplicedFrom(_, _, _, _)
\* the output after the template lines from line i on, present being the
\* readable files: a line is replaced when it names a listed and present file
SplicedFrom(content, tmpl, i, present) ==
  IF i > Len(tmpl) THEN content
  ELSE LET Go(f) ==
             IF f # "" /\ f \in {IncNames[j] : j \in DOMAIN IncNames} /\ f \in present
             THEN SplicedFrom(WriteAll(content, SplicedBlock(f), 1), tmpl, i + 1,
                              IF frame.remove_inc THEN present \ {f} ELSE present)
             ELSE SplicedFrom(Write(content, tmpl[i]), tmpl, i + 1, present)
       IN Go(include(tmpl[i]))

\* the last n lines of a file
LastLines(content, n) ==
  IF Len(content) < n THEN <<>> ELSE SubSeq(content, Len(content) - n + 1, Len(content))

\* at the end of make_include the output is the header and the template with
\* the includes of listed, readable fragments replaced, every other line as it is
SplicedOutput ==
  pc = "spliced" =>
    fs["packet-p.c"] = SplicedFrom(IncludeHeader("packet-p.c", "t.c", IncNames), fs["t.c"], 1,
                                   DOMAIN FragmentFiles)

\* a step that unlinks a file: it is the fragment of the line, asked to be
\* removed, its handle is closed and the output ends with its whole block
UnlinkAfterCopy ==
  (DOMAIN fs' # DOMAIN fs /\ pc = "make_include") =>
    /\ DOMAIN fs' = DOMAIN fs \ {frame.fname}
    /\ frame.remove_inc /\ frame.finc = "closed"
    /\ InList(IncNames, frame.fname)
    /\ LastLines(fs[Out], Len(WriteAll(<<>>, SplicedBlock(frame.fname), 1)))
         = WriteAll(<<>>, SplicedBlock(frame.fname), 1)
    /\ fs'[Out] = fs[Out]

\* C19: make_include replaces an include only when it names a fragment of the
\* list that exists, by the open comment, the whole fragment and the close
\* comment; it unlinks the fragment only after the copy and the close of its
\* handle; every other line of the template is written unchanged and in order
C19_Splice == [](SplicedOutput) /\ [][UnlinkAfterCopy]_vars

\* the fragment of the functions is included twice and removed: the second
\* include and the include of the unlisted x.h are written as they are
C19_Witness ==
  /\ pc = "spliced" /\ frame.remove_inc
  /\ fs["t.c"] = <<"#include <packet-p-fn.c>" \o NL, "#include <packet-p-fn.c>" \o NL,
                   "#include <x.h>" \o NL>>
  /\ ~HasKey(fs, "packet-p-fn.c") /\ HasKey(fs, "x.h")
  /\ LastLines(fs["packet-p.c"], 5)
       = <<"g();" \o NL, "/*--- End of included file: packet-p-fn.c ---*/" \o NL, NL,
           "#include <packet-p-fn.c>" \o NL, "#include <x.h>" \o NL>>


\* the items of the type E in the order of the declaration
ItemsOf(node) == node.val \o node.ext

\* C20: the value table of an ENUMERATED type lists the items in declaration
\* order, root items first; an item with a number has that number, an item
\* without one the smallest non-negative integer that is no number of the
\* declaration and no value of an earlier item; the values are pairwise distinct
C20_EnumValues ==
  pc = "vals" =>
    LET items == ItemsOf(ectx.eth_type["E"].val)
        vals == out.fn[1].vals
        numbers == {int(items[i].val) : i \in {j \in DOMAIN items : items[j].type = "NamedNumber"}}
        taken(i) == numbers \cup {vals[j][1] : j \in 1..(i - 1)}
    IN /\ Len(vals) = Len(items)
       /\ \A i \in DOMAIN items :
            /\ vals[i][2] = items[i].ident
            /\ items[i].type = "NamedNumber" => vals[i][1] = int(items[i].val)
            /\ items[i].type = "Identifier" =>
                 /\ vals[i][1] >= 0 /\ vals[i][1] \notin taken(i)
                 /\ \A n \in 0..(vals[i][1] - 1) : n \in taken(i)
       /\ \A i, j \in DOMAIN vals : i # j => vals[i][1] # vals[j][1]


\* the names of the alternatives of a list
NamesOf(l) == [i \in DOMAIN l |-> l[i].name]

\* C21: whatever was emitted before, the value table and the element table of
\* a CHOICE have one row per alternative, root alternatives first, in the
\* order of the declaration, and the lists of the choice stay as declared
C21_ChoiceRows ==
  pc = "output" =>
    /\ frame.node = frame.decl
    /\ call.fn = "eth_type_vals" =>
         [i \in DOMAIN out.fn[1].vals |-> out.fn[1].vals[i][2]]
           = NamesOf(frame.decl.elt_list \o frame.decl.ext_list)
    /\ (call.fn = "eth_type_fn" /\ ~(Ber(ectx) /\ ectx.new)) =>
         NamesOf(out.fn[1].rows) = NamesOf(frame.decl.elt_list \o frame.decl.ext_list)


RECURSIVE PostVisit(_, _)
RECURSIVE PostDeps(_, _, _)

\* the depth-first walk from the type t written as a recursion: the
\* dependencies of t in the order they were recorded, t after them; a
\* dependency is passed over when it is imported, when its wire name is
\* already in the list or when it is being walked
PostVisit(t, st) ==
  LET Leave(after) == [ord |-> Append(after.ord, ectx.type[t].ethname),
                       x |-> after.x \cup {ectx.type[t].ethname}, on |-> st.on]
  IN Leave(PostDeps(Get(ectx.type_dep, t, <<>>), 1, [st EXCEPT !.on = @ \cup {t}]))

PostDeps(ds, i, st) ==
  IF i > Len(ds) THEN st
  ELSE IF ectx.type[ds[i]].ethname \in st.x \/ ectx.type[ds[i]].import # None \/ ds[i] \in st.on
       THEN PostDeps(ds, i + 1, st)
       ELSE PostDeps(ds, i + 1, PostVisit(ds[i], st))

RECURSIVE PostRoots(_, _)
\* the roots in the order of type_ord
PostRoots(i, st) ==
  IF i > Len(ectx.type_ord) THEN st
  ELSE IF ectx.type[ectx.type_ord[i]].ethname \in st.x THEN PostRoots(i + 1, st)
       ELSE PostRoots(i + 1, PostVisit(ectx.type_ord[i], st))

PostOrder == PostRoots(1, [ord |-> <<>>, x |-> {}, on |-> {}]).ord

\* C22 as stated: eth_type_ord1 is the reverse of the post-order of the
\* depth-first walk over the type dependencies
C22_ReversePostOrder ==
  pc = "prepared" => ectx.eth_type_ord1 = Reverse(PostOrder)

\* C22 amended: eth_type_ord1 is the post-order of the depth-first walk, roots
\* in the order of type_ord and dependencies in the order they were recorded:
\* a type is listed when the walk leaves it, after the types it depends on
C22_PostOrder ==
  pc = "prepared" => ectx.eth_type_ord1 = PostOrder

\* T-x is declared before the type Z of its component and listed after it
C22_Witness ==
  /\ pc = "prepared"
  /\ ectx.type_ord = <<"T-x", "Z">>
  /\ ectx.type_dep["T-x"] = <<"Z">>
  /\ ectx.eth_type_ord1 = <<"Z", "T_x">>


\* C23: a type key that TYPE_RENAME names is registered without an error,
\* exactly once, and its wire name is the name of the row; also for the
\* assignment of a type reference and for a type with FN_BODY text
C23_RenamedTypeRegistered ==
  \A k \in DOMAIN conform.table["TYPE_RENAME"] :
    /\ err # "Duplicate type for " \o k
    /\ InList(ectx.type_ord, k) =>
         /\ Cardinality({i \in DOMAIN ectx.type_ord : ectx.type_ord[i] = k}) = 1
         /\ ectx.type[k].tname = conform.table["TYPE_RENAME"][k].kw.eth_name
         /\ pc = "prepared" => ectx.type[k].ethname = conform.table["TYPE_RENAME"][k].kw.eth_name


\* C24: under PER the function of an ENUMERATED type is emitted without an
\* error, and its call of the constrained-integer primitive has the minimum
\* 0, the largest value of the value table as maximum and the extensible flag
\* TRUE exactly when the type has an extension marker
C24_EnumFnPer ==
  (call.fn = "eth_type_fn" /\ call.key = "E" /\ ectx.encoding = "per") =>
    /\ err = "" /\ pc = "done"
    /\ Len(out.fn) = 2 /\ out.fn[2].k = "type_fn"
    /\ \E i \in DOMAIN out.fn[2].text :
         out.fn[2].text[i]
           = "  offset = dissect_per_constrained_integer_new(0, "
             \o Str(EnumVals(ectx.eth_type["E"].val).maxv) \o ", "
             \o (IF ectx.eth_type["E"].val.has_ext THEN "TRUE" ELSE "FALSE") \o ")"

\* ---- C25: sharing and suffixing of colliding field names ----

\* the name a field asks for (no FIELD_RENAME row, no _item field in these
\* modules), and the wire name of its type together with its marker
AskedName(f) == LET sp == SplitSlash(f) IN ReplaceHyphen(sp[Len(sp)])
Underlying(f) == <<ectx.type[ectx.field[f].type].ethname, ectx.field[f].modified>>

\* the fields before position i of field_ord that ask for the name of the i-th
Earlier(i) ==
  { j \in 1..(i - 1) : AskedName(ectx.field_ord[j]) = AskedName(ectx.field_ord[i]) }

\* the i-th field shares the entry of an earlier field of the same underlying
\* type, or, when there is none, has an entry no earlier field has, under the
\* asked name at the first occurrence and under a suffixed name afterwards
SharesOrSuffixed(i) ==
  LET f == ectx.field_ord[i]
      same == { j \in Earlier(i) : Underlying(ectx.field_ord[j]) = Underlying(f) }
  IN IF same # {}
     THEN \A j \in same : ectx.field[f].ethname = ectx.field[ectx.field_ord[j]].ethname
     ELSE /\ \A j \in Earlier(i) :
               ectx.field[f].ethname # ectx.field[ectx.field_ord[j]].ethname
          /\ IF Earlier(i) = {} THEN ectx.field[f].ethname = AskedName(f)
             ELSE \E k \in 1..Len(ectx.field_ord) :
                    ectx.field[f].ethname = AskedName(f) \o Str(k)

\* C25: after eth_prepare, a field whose wire name occurred before shares the
\* header-field entry of an earlier field of that name with the same type
\* wire name and the same FIELD_ATTR marker, and otherwise has a new entry
\* under a numerically suffixed name, however many collisions came before
C25_ShareOrSuffix ==
  (pc = "prepared" /\ err = "") =>
    \A i \in 1..Len(ectx.field_ord) : SharesOrSuffixed(i)

\* ---- C26: the registries are write-once ----

\* what an entry of a registry is made with: eth_prepare only adds and updates
\* the other keys of an entry (ethname, export, ...)
MadeWith == {"import", "proto", "val", "type", "value", "idx", "impl", "modified"}
Made(e) == [k \in (DOMAIN e) \cap MadeWith |-> e[k]]

\* the entries of the table tab stay under their keys, as they were made
KeptEntries(tab) ==
  \A k \in DOMAIN ectx[tab] :
    /\ k \in DOMAIN ectx'[tab]
    /\ Made(ectx'[tab][k]) = Made(ectx[tab][k])

\* C26: no step (registration, eth_import_type, eth_import_value, placeholder
\* import of eth_prepare) replaces the entry stored under a key of the type,
\* field or value table
C26_WriteOnce ==
  [][KeptEntries("type") /\ KeptEntries("field") /\ KeptEntries("value")]_vars

\* ---- C27: the wrappers named by the element tables ----

\* the wrapper named by the row r is written, and it calls the dissector of
\* the type of the field of r
WrapperWritten(r) ==
  \E j \in DOMAIN out.fn :
    /\ out.fn[j].k = "out_field"
    /\ out.fn[j].name = r.wrapper
    /\ out.fn[j].call = "dissect_" \o ectx.eth_type[ectx.type[ectx.field[r.f].type].ethname].proto
                        \o "_" \o ectx.type[ectx.field[r.f].type].ethname

\* C27: under the legacy API, every wrapper dissect_<field> or
\* dissect_<field>_impl named by a row of an element table written to
\* packet-P-fn.c is written there under that name and forwards to the
\* dissector of the type of the field, under BER and under PER
C27_WrappersWritten ==
  (pc = "done" /\ ~ectx.new) =>
    \A i \in DOMAIN out.fn :
      out.fn[i].k = "type_fn" =>
        \A n \in DOMAIN out.fn[i].rows :
          out.fn[i].rows[n].wrapper # "" => WrapperWritten(out.fn[i].rows[n])

\* ---- C28: the lists of eth_dep_cycle ----

\* the pass of the walk appends a list to eth_dep_cycle
RecordsCycle ==
  /\ pc = "type_dep" /\ pc' = "type_dep"
  /\ Len(ectx'.eth_dep_cycle) = Len(ectx.eth_dep_cycle) + 1

\* the list c recorded when the dependency d of the top of the stack is found
\* on the stack: c starts and ends with d, in between are the entries of the
\* stack from the first d to the top, consecutive entries are edges of
\* type_dep, and no entry of c is below d on the stack, d being the entry of
\* the cycle with the minimum index on the stack
CycleFromStack(c, stack, d) ==
  LET k == Index(stack, d) IN
  /\ InList(stack, d)
  /\ c[1] = d /\ c[Len(c)] = d
  /\ SubSeq(c, 1, Len(c) - 1) = SubSeq(stack, k, Len(stack))
  /\ \A i \in 1..(Len(c) - 1) : InList(Get(ectx.type_dep, c[i], <<>>), c[i + 1])
  /\ \A i \in 1..Len(c) : \A j \in 1..Len(stack) : stack[j] = c[i] => j >= k

C29_PrepareTerminates ==
  (pc \in {"value_dep", "fields", "type_dep"}) ~> (pc \in {"prepared", "fatal"})

\* ---- C30: the header-field entries after eth_prepare ----

\* the entry of eth_hf under the wire name of the field f is the entry made
\* for f or shared by f: it has the wire name of f's type and lists f
OwnsEntry(f) ==
  LET nm == ectx.field[f].ethname IN
  /\ HasKey(ectx.eth_hf, nm)
  /\ ectx.eth_hf[nm].ethtype = ectx.type[ectx.field[f].type].ethname
  /\ InList(ectx.eth_hf[nm].ref, f)

\* C30: after eth_prepare no name occurs twice in eth_hf_ord (no entry of
\* eth_hf was made twice, so none was overwritten by a suffixed name), and
\* the entry under the wire name of every registered field has the wire name
\* of the field's type as its type and still lists the field
C30_HfEntries ==
  (pc = "prepared" /\ err = "") =>
    /\ \A i, j \in 1..Len(ectx.eth_hf_ord) :
         ectx.eth_hf_ord[i] = ectx.eth_hf_ord[j] => i = j
    /\ \A f \in DOMAIN ectx.field : OwnsEntry(f)

====
